---------------------------- MODULE Spec2Model ----------------------------
(***************************************************************************)
(* Model of the RS3 drop calculator's probability engine                   *)
(* (src/lib/calculations/*.ts, src/components/ModifiersPanel.tsx enrage    *)
(* functions, src/unnamed/part_000 graph data generator).                  *)
(*                                                                         *)
(* The engine is a set of pure functions over JavaScript numbers.  Numbers *)
(* are modelled as exact rationals n/d (reduced, d > 0); NaN is a value of *)
(* its own; a thrown Error is the value Throw(msg), which every caller     *)
(* propagates, as an uncaught exception does.  Floating-point rounding is  *)
(* not modelled: every result is the real-number value of the expression   *)
(* the code evaluates.                                                     *)
(*                                                                         *)
(* A behaviour of Spec is one call: Init draws the function and its        *)
(* arguments, the function's action evaluates it and stores what it        *)
(* returns.                                                                *)
(*                                                                         *)
(* StepSpec runs the binary searches (findEnrageForTargetDropRate,         *)
(* findMilestoneAttemptsWithBLM, findMilestoneAttemptsWithLuckAndBLM) one  *)
(* loop iteration per step; `frame` holds the locals of the running        *)
(* search.                                                                 *)
(*                                                                         *)
(* UISpec is the calculator page (src/components/RS3DropCalculator.tsx,    *)
(* BossSelector.tsx, ModifiersPanel.tsx, ItemSelector): `calculator` is    *)
(* the state of RS3DropCalculator, `selector` that of BossSelector, and    *)
(* one step is one user event, handled to its end (React applies the       *)
(* state updates of one event handler together).                           *)
(***************************************************************************)
EXTENDS Integers, Sequences, FiniteSets, TLC

VARIABLES fn, args, ret, frame, calculator, selector

vars == <<fn, args, ret, frame, calculator, selector>>

---------------------------------------------------------------------------
(* Bounds of the model *)

\* largest magnitude of a numerator or denominator the model computes with;
\* a call whose exact value needs more is left out of the model
MaxMagnitude == 1000000000

\* attempts / kill counts are drawn from -1..MaxAttempts
MaxAttempts == 4

\* rates are drawn as n/d with n in -1..MaxRateNum and d in RateDens
MaxRateNum == 4

\* mitigationStart is drawn from -1..MaxStart
MaxStart == 2

\* mitigationCap is drawn as n/d with n in 0..MaxCapNum and d in {1, 2}
MaxCapNum == 3

\* the components of a table-based configuration are drawn from 0..MaxTableValue
MaxTableValue == 3

---------------------------------------------------------------------------
(* JavaScript numbers as exact rationals *)

Abs(x) == IF x < 0 THEN -x ELSE x

RECURSIVE GCD(_, _)
GCD(a, b) == IF b = 0 THEN a ELSE GCD(b, a % b)

\* the rational n/d (d # 0), reduced, with a positive denominator
Num(n, d) ==
    LET g == GCD(Abs(n), Abs(d))
        s == IF d < 0 THEN -1 ELSE 1
    IN  [k |-> "num", n |-> s * (n \div g), d |-> s * (d \div g), msg |-> ""]

Whole(i) == [k |-> "num", n |-> i, d |-> 1, msg |-> ""]

NaN == [k |-> "nan", n |-> 0, d |-> 1, msg |-> ""]

\* a value the model cannot represent within MaxMagnitude
Ovf == [k |-> "ovf", n |-> 0, d |-> 1, msg |-> ""]

\* an Error thrown with this message
Throw(m) == [k |-> "throw", n |-> 0, d |-> 1, msg |-> m]

\* no value yet: the call has not returned
Pending == [k |-> "pending", n |-> 0, d |-> 1, msg |-> ""]

IsNum(x) == x.k = "num"
IsNaN(x) == x.k = "nan"
IsThrow(x) == x.k = "throw"
IsOvf(x) == x.k = "ovf"
IsInt(x) == x.k = "num" /\ x.d = 1

MulFits(a, b) == a = 0 \/ b = 0 \/ Abs(a) <= MaxMagnitude \div Abs(b)

\* the result of an arithmetic operator one of whose operands is no number
Poison(x, y) == IF IsOvf(x) \/ IsOvf(y) THEN Ovf ELSE NaN

Neg(x) == IF IsNum(x) THEN [x EXCEPT !.n = -x.n] ELSE x

Mul(x, y) ==
    IF ~(IsNum(x) /\ IsNum(y)) THEN Poison(x, y)
    ELSE LET g1 == GCD(Abs(x.n), y.d)
             g2 == GCD(Abs(y.n), x.d)
             a == x.n \div g1
             b == y.n \div g2
             c == x.d \div g2
             e == y.d \div g1
         IN  IF MulFits(a, b) /\ MulFits(c, e) THEN Num(a * b, c * e) ELSE Ovf

Add(x, y) ==
    IF ~(IsNum(x) /\ IsNum(y)) THEN Poison(x, y)
    ELSE LET g == GCD(x.d, y.d)
             xd == x.d \div g
             yd == y.d \div g
         IN  IF MulFits(xd, y.d) /\ MulFits(x.n, yd) /\ MulFits(y.n, xd)
                THEN LET s == x.n * yd + y.n * xd
                     IN  IF Abs(s) <= MaxMagnitude THEN Num(s, xd * y.d) ELSE Ovf
                ELSE Ovf

Sub(x, y) == Add(x, Neg(y))

\* x / y for y # 0 (no call of the model divides by zero)
Div(x, y) ==
    IF ~(IsNum(x) /\ IsNum(y)) THEN Poison(x, y)
    ELSE Mul(x, Num(y.d, y.n))

\* a/b < c/e for b, e > 0, by the continued-fraction expansion: no product
\* is formed, so the comparison is exact for every representable operand
RECURSIVE FracLess(_, _, _, _)
FracLess(a, b, c, e) ==
    LET q1 == a \div b
        q2 == c \div e
        r1 == a % b
        r2 == c % e
    IN  IF q1 # q2 THEN q1 < q2
        ELSE IF r2 = 0 THEN FALSE
        ELSE IF r1 = 0 THEN TRUE
        ELSE FracLess(e, r2, b, r1)

\* the JavaScript comparisons: false when an operand is NaN
Less(x, y) == IsNum(x) /\ IsNum(y) /\ FracLess(x.n, x.d, y.n, y.d)
Leq(x, y) == IsNum(x) /\ IsNum(y) /\ ~FracLess(y.n, y.d, x.n, x.d)
Greater(x, y) == Less(y, x)
Geq(x, y) == Leq(y, x)

\* Math.min / Math.max: NaN when an operand is NaN
MathMin(x, y) ==
    IF ~(IsNum(x) /\ IsNum(y)) THEN Poison(x, y)
    ELSE IF Less(y, x) THEN y ELSE x

MathMax(x, y) ==
    IF ~(IsNum(x) /\ IsNum(y)) THEN Poison(x, y)
    ELSE IF Less(x, y) THEN y ELSE x

\* Math.floor / Math.ceil
MathFloor(x) == IF IsNum(x) THEN Whole(x.n \div x.d) ELSE x
MathCeil(x) == IF IsNum(x) THEN Whole(-((-x.n) \div x.d)) ELSE x

\* Math.pow(x, e) for an integer e >= 0, by repeated multiplication;
\* Math.pow(x, NaN) is NaN
RECURSIVE PowLoop(_, _, _)
PowLoop(x, e, p) ==
    IF e = 0 \/ IsOvf(p) THEN p ELSE PowLoop(x, e - 1, Mul(p, x))

PowInt(x, e) == PowLoop(x, e, Whole(1))

MathPow(x, e) ==
    IF ~(IsNum(x) /\ IsNum(e)) THEN Poison(x, e)
    ELSE PowInt(x, e.n)

\* the least i >= from with b^i <= a, for 0 < b < 1 and a > 0 (p = b^from)
RECURSIVE LeastPower(_, _, _, _)
LeastPower(a, b, i, p) ==
    IF IsOvf(p) THEN Ovf
    ELSE IF Leq(p, a) THEN Whole(i)
    ELSE LeastPower(a, b, i + 1, Mul(p, b))

\* Math.ceil(Math.log(a) / Math.log(b)) for 0 < a < 1 and b < 1:
\*   b < 0: Math.log(b) is NaN, and so is the result;
\*   b = 0: Math.log(b) is -Infinity, the quotient is 0;
\*   0 < b < 1: ceil(ln a / ln b) is the least n with b^n <= a.
CeilLogRatio(a, b) ==
    IF ~(IsNum(a) /\ IsNum(b)) THEN Poison(a, b)
    ELSE IF b.n < 0 THEN NaN
    ELSE IF b.n = 0 THEN Whole(0)
    ELSE LeastPower(a, b, 0, Whole(1))

---------------------------------------------------------------------------
(* src/lib/calculations/dropRate.ts *)

MAX_PROBABILITY == Num(9999, 10000)

calculateBaseProbability(dropRate) ==
    IF Leq(dropRate, Whole(0)) THEN Throw("Drop rate must be positive")
    ELSE Div(Whole(1), dropRate)

calculateCumulativeProbability(attempts, dropRate) ==
    IF Less(attempts, Whole(0)) THEN Throw("Attempts must be non-negative")
    ELSE IF attempts = Whole(0) THEN Whole(0)
    ELSE LET baseProbability == calculateBaseProbability(dropRate)
         IN  IF IsThrow(baseProbability) THEN baseProbability
             ELSE LET probabilityOfNone ==
                          MathPow(Sub(Whole(1), baseProbability), attempts)
                      cumulativeProbability == Sub(Whole(1), probabilityOfNone)
                  IN  MathMin(cumulativeProbability, MAX_PROBABILITY)

findMilestoneAttempts(targetProbability, dropRate) ==
    IF Leq(targetProbability, Whole(0)) \/ Geq(targetProbability, Whole(1))
       THEN Throw("Target probability must be between 0 and 1 (exclusive)")
    ELSE LET baseProbability == calculateBaseProbability(dropRate)
         IN  IF IsThrow(baseProbability) THEN baseProbability
             ELSE LET cappedTarget == MathMin(targetProbability, MAX_PROBABILITY)
                  IN  CeilLogRatio(Sub(Whole(1), cappedTarget),
                                   Sub(Whole(1), baseProbability))

---------------------------------------------------------------------------
(* src/lib/calculations/badLuckMitigation.ts *)

\* getDropRateForKill without the Math.max of its last line: the schedule
\* keeps falling below the cap
getDropRateForKill_NoCap(killNumber, baseDenominator, mitigationStart, mitigationCap) ==
    IF Leq(killNumber, Whole(0)) THEN Throw("Kill number must be positive")
    ELSE IF Leq(baseDenominator, Whole(0))
       THEN Throw("Base denominator must be positive")
    ELSE IF Leq(mitigationCap, Whole(0))
       THEN Throw("Mitigation cap must be positive")
    ELSE IF Less(mitigationStart, Whole(0))
       THEN Throw("Mitigation start must be non-negative")
    ELSE IF Leq(killNumber, mitigationStart) THEN baseDenominator
    ELSE Sub(baseDenominator, Sub(killNumber, mitigationStart))

\* getDropRateForKill counting the kills past the start from the kill after
\* the first mitigated one (killNumber - mitigationStart - 1)
getDropRateForKill_OffByOne(killNumber, baseDenominator, mitigationStart, mitigationCap) ==
    IF Leq(killNumber, Whole(0)) THEN Throw("Kill number must be positive")
    ELSE IF Leq(baseDenominator, Whole(0))
       THEN Throw("Base denominator must be positive")
    ELSE IF Leq(mitigationCap, Whole(0))
       THEN Throw("Mitigation cap must be positive")
    ELSE IF Less(mitigationStart, Whole(0))
       THEN Throw("Mitigation start must be non-negative")
    ELSE IF Leq(killNumber, mitigationStart) THEN baseDenominator
    ELSE LET killsPastStart == Sub(Sub(killNumber, mitigationStart), Whole(1))
             adjustedDenominator == Sub(baseDenominator, killsPastStart)
         IN  MathMax(adjustedDenominator, mitigationCap)

\* getDropRateForKill taking the smaller of the adjusted denominator and the
\* cap (Math.min for the Math.max of its last line)
getDropRateForKill_MinCap(killNumber, baseDenominator, mitigationStart, mitigationCap) ==
    IF Leq(killNumber, Whole(0)) THEN Throw("Kill number must be positive")
    ELSE IF Leq(baseDenominator, Whole(0))
       THEN Throw("Base denominator must be positive")
    ELSE IF Leq(mitigationCap, Whole(0))
       THEN Throw("Mitigation cap must be positive")
    ELSE IF Less(mitigationStart, Whole(0))
       THEN Throw("Mitigation start must be non-negative")
    ELSE IF Leq(killNumber, mitigationStart) THEN baseDenominator
    ELSE LET killsPastStart == Sub(killNumber, mitigationStart)
             adjustedDenominator == Sub(baseDenominator, killsPastStart)
         IN  MathMin(adjustedDenominator, mitigationCap)

getDropRateForKill(killNumber, baseDenominator, mitigationStart, mitigationCap) ==
    IF Leq(killNumber, Whole(0)) THEN Throw("Kill number must be positive")
    ELSE IF Leq(baseDenominator, Whole(0))
       THEN Throw("Base denominator must be positive")
    ELSE IF Leq(mitigationCap, Whole(0))
       THEN Throw("Mitigation cap must be positive")
    ELSE IF Less(mitigationStart, Whole(0))
       THEN Throw("Mitigation start must be non-negative")
    ELSE IF Leq(killNumber, mitigationStart) THEN baseDenominator
    ELSE LET killsPastStart == Sub(killNumber, mitigationStart)
             adjustedDenominator == Sub(baseDenominator, killsPastStart)
         IN  MathMax(adjustedDenominator, mitigationCap)

\* the loop of calculateCumulativeProbabilityWithBLM from iteration `kill` on,
\* probabilityOfNoDrop being the product so far; a throw of getDropRateForKill
\* leaves the loop
RECURSIVE BLMLoop(_, _, _, _, _, _)
BLMLoop(kill, attempts, baseDenominator, mitigationStart, mitigationCap, probabilityOfNoDrop) ==
    IF ~(kill <= attempts) \/ IsOvf(probabilityOfNoDrop) THEN probabilityOfNoDrop
    ELSE LET dropRateDenominator ==
                 getDropRateForKill(Whole(kill), baseDenominator,
                                    mitigationStart, mitigationCap)
         IN  IF IsThrow(dropRateDenominator) THEN dropRateDenominator
             ELSE LET probNoDropThisKill ==
                          Sub(Whole(1), Div(Whole(1), dropRateDenominator))
                  IN  BLMLoop(kill + 1, attempts, baseDenominator,
                              mitigationStart, mitigationCap,
                              Mul(probabilityOfNoDrop, probNoDropThisKill))

calculateCumulativeProbabilityWithBLM(attempts, baseDenominator, mitigationStart, mitigationCap) ==
    IF Less(attempts, Whole(0)) THEN Throw("Attempts must be non-negative")
    ELSE IF attempts = Whole(0) THEN Whole(0)
    ELSE LET probabilityOfNoDrop ==
                 BLMLoop(1, attempts.n, baseDenominator, mitigationStart,
                         mitigationCap, Whole(1))
         IN  IF IsThrow(probabilityOfNoDrop) THEN probabilityOfNoDrop
             ELSE MathMin(Sub(Whole(1), probabilityOfNoDrop), Num(9999, 10000))

\* the binary search of findMilestoneAttemptsWithBLM from the bounds low, high
RECURSIVE BLMSearch(_, _, _, _, _, _)
BLMSearch(low, high, targetProbability, baseDenominator, mitigationStart, mitigationCap) ==
    IF ~Less(low, high) THEN low
    ELSE LET mid == MathFloor(Div(Add(low, high), Whole(2)))
             prob == calculateCumulativeProbabilityWithBLM(
                         mid, baseDenominator, mitigationStart, mitigationCap)
         IN  IF IsThrow(prob) \/ IsOvf(prob) THEN prob
             ELSE IF Less(prob, targetProbability)
                THEN BLMSearch(Add(mid, Whole(1)), high, targetProbability,
                               baseDenominator, mitigationStart, mitigationCap)
             ELSE BLMSearch(low, mid, targetProbability, baseDenominator,
                            mitigationStart, mitigationCap)

findMilestoneAttemptsWithBLM(targetProbability, baseDenominator, mitigationStart, mitigationCap) ==
    IF Leq(targetProbability, Whole(0)) \/ Geq(targetProbability, Whole(1))
       THEN Throw("Target probability must be between 0 and 1")
    ELSE BLMSearch(Whole(1), Mul(baseDenominator, Whole(10)), targetProbability,
                   baseDenominator, mitigationStart, mitigationCap)

\* returns {withoutBLM, withBLM}; the improvement fields are differences of
\* these two and are left out
compareBLMImpact(attempts, baseDenominator, mitigationStart, mitigationCap) ==
    LET baseProbability == Div(Whole(1), baseDenominator)
        withoutBLM ==
            MathMin(Sub(Whole(1), MathPow(Sub(Whole(1), baseProbability), attempts)),
                    Num(9999, 10000))
        withBLM == calculateCumulativeProbabilityWithBLM(
                       attempts, baseDenominator, mitigationStart, mitigationCap)
    IN  IF IsThrow(withBLM) THEN withBLM
        ELSE IF IsOvf(withoutBLM) \/ IsOvf(withBLM) THEN Ovf
        ELSE [k |-> "obj", withoutBLM |-> withoutBLM, withBLM |-> withBLM]

---------------------------------------------------------------------------
(* src/lib/calculations/luck.ts *)

LOTD_MULTIPLIER == Num(101, 100)

applyLuckToDropRate(baseDenominator) ==
    IF Leq(baseDenominator, Whole(0))
       THEN Throw("Base denominator must be positive")
    ELSE Div(baseDenominator, LOTD_MULTIPLIER)

calculateCumulativeProbabilityWithLuck(attempts, baseDenominator) ==
    LET improvedDenominator == applyLuckToDropRate(baseDenominator)
    IN  IF IsThrow(improvedDenominator) THEN improvedDenominator
        ELSE calculateCumulativeProbability(attempts, improvedDenominator)

findMilestoneAttemptsWithLuck(targetProbability, baseDenominator) ==
    LET improvedDenominator == applyLuckToDropRate(baseDenominator)
    IN  IF IsThrow(improvedDenominator) THEN improvedDenominator
        ELSE findMilestoneAttempts(targetProbability, improvedDenominator)

\* the loop of calculateCumulativeProbabilityWithLuckAndBLM from iteration
\* `kill` on, probabilityOfNoDrop being the product so far
RECURSIVE LuckBLMLoop(_, _, _, _, _, _)
LuckBLMLoop(kill, attempts, improvedBaseDenominator, mitigationStart, improvedMitigationCap, probabilityOfNoDrop) ==
    IF ~(kill <= attempts) \/ IsOvf(probabilityOfNoDrop) THEN probabilityOfNoDrop
    ELSE LET dropRateDenominator ==
                 getDropRateForKill(Whole(kill), improvedBaseDenominator,
                                    mitigationStart, improvedMitigationCap)
         IN  IF IsThrow(dropRateDenominator) THEN dropRateDenominator
             ELSE LET probNoDropThisKill ==
                          Sub(Whole(1), Div(Whole(1), dropRateDenominator))
                  IN  LuckBLMLoop(kill + 1, attempts, improvedBaseDenominator,
                                  mitigationStart, improvedMitigationCap,
                                  Mul(probabilityOfNoDrop, probNoDropThisKill))

\* calculateCumulativeProbabilityWithLuckAndBLM that applies the luck
\* multiplier to the base denominator only, not to the cap
calculateCumulativeProbabilityWithLuckAndBLM_CapUnscaled(attempts, baseDenominator, mitigationStart, mitigationCap) ==
    IF Less(attempts, Whole(0)) THEN Throw("Attempts must be non-negative")
    ELSE IF attempts = Whole(0) THEN Whole(0)
    ELSE LET improvedBaseDenominator == applyLuckToDropRate(baseDenominator)
         IN  IF IsThrow(improvedBaseDenominator) THEN improvedBaseDenominator
             ELSE LET probabilityOfNoDrop ==
                          LuckBLMLoop(1, attempts.n, improvedBaseDenominator,
                                      mitigationStart, mitigationCap, Whole(1))
                  IN  IF IsThrow(probabilityOfNoDrop) THEN probabilityOfNoDrop
                      ELSE MathMin(Sub(Whole(1), probabilityOfNoDrop),
                                   Num(9999, 10000))

calculateCumulativeProbabilityWithLuckAndBLM(attempts, baseDenominator, mitigationStart, mitigationCap) ==
    IF Less(attempts, Whole(0)) THEN Throw("Attempts must be non-negative")
    ELSE IF attempts = Whole(0) THEN Whole(0)
    ELSE LET improvedBaseDenominator == applyLuckToDropRate(baseDenominator)
             improvedMitigationCap == applyLuckToDropRate(mitigationCap)
         IN  IF IsThrow(improvedBaseDenominator) THEN improvedBaseDenominator
             ELSE IF IsThrow(improvedMitigationCap) THEN improvedMitigationCap
             ELSE LET probabilityOfNoDrop ==
                          LuckBLMLoop(1, attempts.n, improvedBaseDenominator,
                                      mitigationStart, improvedMitigationCap,
                                      Whole(1))
                  IN  IF IsThrow(probabilityOfNoDrop) THEN probabilityOfNoDrop
                      ELSE MathMin(Sub(Whole(1), probabilityOfNoDrop),
                                   Num(9999, 10000))

\* the binary search of findMilestoneAttemptsWithLuckAndBLM
RECURSIVE LuckBLMSearch(_, _, _, _, _, _)
LuckBLMSearch(low, high, targetProbability, baseDenominator, mitigationStart, mitigationCap) ==
    IF ~Less(low, high) THEN low
    ELSE LET mid == MathFloor(Div(Add(low, high), Whole(2)))
             prob == calculateCumulativeProbabilityWithLuckAndBLM(
                         mid, baseDenominator, mitigationStart, mitigationCap)
         IN  IF IsThrow(prob) \/ IsOvf(prob) THEN prob
             ELSE IF Less(prob, targetProbability)
                THEN LuckBLMSearch(Add(mid, Whole(1)), high, targetProbability,
                                   baseDenominator, mitigationStart, mitigationCap)
             ELSE LuckBLMSearch(low, mid, targetProbability, baseDenominator,
                                mitigationStart, mitigationCap)

findMilestoneAttemptsWithLuckAndBLM(targetProbability, baseDenominator, mitigationStart, mitigationCap) ==
    IF Leq(targetProbability, Whole(0)) \/ Geq(targetProbability, Whole(1))
       THEN Throw("Target probability must be between 0 and 1")
    ELSE LuckBLMSearch(Whole(1), Mul(baseDenominator, Whole(10)),
                       targetProbability, baseDenominator, mitigationStart,
                       mitigationCap)

\* returns {base, withLuck, withBLM, withBoth}; the savings fields are
\* differences of these and are left out
compareAllModifiers(attempts, baseDenominator, mitigationStart, mitigationCap) ==
    LET base == calculateCumulativeProbability(attempts, baseDenominator)
        withLuck == calculateCumulativeProbabilityWithLuck(attempts, baseDenominator)
        withBLM == calculateCumulativeProbabilityWithBLM(
                       attempts, baseDenominator, mitigationStart, mitigationCap)
        withBoth == calculateCumulativeProbabilityWithLuckAndBLM(
                        attempts, baseDenominator, mitigationStart, mitigationCap)
    IN  IF IsThrow(base) THEN base
        ELSE IF IsThrow(withLuck) THEN withLuck
        ELSE IF IsThrow(withBLM) THEN withBLM
        ELSE IF IsThrow(withBoth) THEN withBoth
        ELSE IF IsOvf(base) \/ IsOvf(withLuck) \/ IsOvf(withBLM) \/ IsOvf(withBoth)
           THEN Ovf
        ELSE [k |-> "obj", base |-> base, withLuck |-> withLuck,
              withBLM |-> withBLM, withBoth |-> withBoth]

---------------------------------------------------------------------------
(* src/lib/calculations/tableBased.ts *)

\* calculateTableHitProbability without its second check: a numerator above
\* the denominator is accepted
calculateTableHitProbability_NoOrderCheck(numerator, denominator) ==
    IF Leq(numerator, Whole(0)) \/ Leq(denominator, Whole(0))
       THEN Throw("Numerator and denominator must be positive")
    ELSE Div(numerator, denominator)

calculateTableHitProbability(numerator, denominator) ==
    IF Leq(numerator, Whole(0)) \/ Leq(denominator, Whole(0))
       THEN Throw("Numerator and denominator must be positive")
    ELSE IF Greater(numerator, denominator)
       THEN Throw("Numerator cannot be greater than denominator")
    ELSE Div(numerator, denominator)

calculateItemFromTableProbability(itemWeight, totalWeight) ==
    IF Leq(itemWeight, Whole(0)) \/ Leq(totalWeight, Whole(0))
       THEN Throw("Weights must be positive")
    ELSE IF Greater(itemWeight, totalWeight)
       THEN Throw("Item weight cannot be greater than total weight")
    ELSE Div(itemWeight, totalWeight)

\* calculateTableBasedDropRate that forgets the item stage: the rate of
\* hitting the table alone
calculateTableBasedDropRate_TableOnly(tableNumerator, tableDenominator, itemWeight, totalWeight) ==
    LET tableProb == calculateTableHitProbability(tableNumerator, tableDenominator)
        itemProb == calculateItemFromTableProbability(itemWeight, totalWeight)
    IN  IF IsThrow(tableProb) THEN tableProb
        ELSE IF IsThrow(itemProb) THEN itemProb
        ELSE Div(Whole(1), tableProb)

\* calculateTableBasedDropRate that adds the two stage rates instead of
\* multiplying the stage probabilities
calculateTableBasedDropRate_StagesAdded(tableNumerator, tableDenominator, itemWeight, totalWeight) ==
    LET tableProb == calculateTableHitProbability(tableNumerator, tableDenominator)
        itemProb == calculateItemFromTableProbability(itemWeight, totalWeight)
    IN  IF IsThrow(tableProb) THEN tableProb
        ELSE IF IsThrow(itemProb) THEN itemProb
        ELSE Add(Div(Whole(1), tableProb), Div(Whole(1), itemProb))

calculateTableBasedDropRate(tableNumerator, tableDenominator, itemWeight, totalWeight) ==
    LET tableProb == calculateTableHitProbability(tableNumerator, tableDenominator)
        itemProb == calculateItemFromTableProbability(itemWeight, totalWeight)
    IN  IF IsThrow(tableProb) THEN tableProb
        ELSE IF IsThrow(itemProb) THEN itemProb
        ELSE LET finalProbability == Mul(tableProb, itemProb)
             IN  Div(Whole(1), finalProbability)

calculateTableBasedCumulativeProbability(attempts, tableNumerator, tableDenominator, itemWeight, totalWeight) ==
    LET finalDropRate == calculateTableBasedDropRate(
                             tableNumerator, tableDenominator, itemWeight,
                             totalWeight)
    IN  IF IsThrow(finalDropRate) THEN finalDropRate
        ELSE calculateCumulativeProbability(attempts, finalDropRate)

findTableBasedMilestoneAttempts(targetProbability, tableNumerator, tableDenominator, itemWeight, totalWeight) ==
    LET finalDropRate == calculateTableBasedDropRate(
                             tableNumerator, tableDenominator, itemWeight,
                             totalWeight)
    IN  IF IsThrow(finalDropRate) THEN finalDropRate
        ELSE findMilestoneAttempts(targetProbability, finalDropRate)

\* getTableBasedDropBreakdown reporting the rate in the place of the
\* probability (finalProbability: finalRate)
getTableBasedDropBreakdown_RateAsProbability(tableNumerator, tableDenominator, itemWeight, totalWeight) ==
    LET tableProb == calculateTableHitProbability(tableNumerator, tableDenominator)
        itemProb == calculateItemFromTableProbability(itemWeight, totalWeight)
        finalRate == calculateTableBasedDropRate(
                         tableNumerator, tableDenominator, itemWeight, totalWeight)
    IN  IF IsThrow(tableProb) THEN tableProb
        ELSE IF IsThrow(itemProb) THEN itemProb
        ELSE IF IsThrow(finalRate) THEN finalRate
        ELSE [k |-> "obj",
              tableChance |-> [numerator |-> tableNumerator,
                               denominator |-> tableDenominator,
                               probability |-> tableProb],
              itemChance |-> [numerator |-> itemWeight,
                              denominator |-> totalWeight,
                              probability |-> itemProb],
              finalRate |-> finalRate,
              finalProbability |-> finalRate]

getTableBasedDropBreakdown(tableNumerator, tableDenominator, itemWeight, totalWeight) ==
    LET tableProb == calculateTableHitProbability(tableNumerator, tableDenominator)
        itemProb == calculateItemFromTableProbability(itemWeight, totalWeight)
        finalRate == calculateTableBasedDropRate(
                         tableNumerator, tableDenominator, itemWeight, totalWeight)
    IN  IF IsThrow(tableProb) THEN tableProb
        ELSE IF IsThrow(itemProb) THEN itemProb
        ELSE IF IsThrow(finalRate) THEN finalRate
        ELSE [k |-> "obj",
              tableChance |-> [numerator |-> tableNumerator,
                               denominator |-> tableDenominator,
                               probability |-> tableProb],
              itemChance |-> [numerator |-> itemWeight,
                              denominator |-> totalWeight,
                              probability |-> itemProb],
              finalRate |-> finalRate,
              finalProbability |-> Div(Whole(1), finalRate)]

---------------------------------------------------------------------------
(* src/components/ModifiersPanel.tsx: the enrage scaling functions *)

TelosMaxEnrage == 4000
ZamorakMaxEnrage == 4000
TelosDivisor == 1000
ZamorakDivisor == 800
ArchGlacorDivisor == 1200

\* calculateTelosDropRate multiplying by the improvement factor instead of
\* dividing by it: the rate grows with enrage
calculateTelosDropRate_Worsening(enrage, baseDropRate) ==
    IF Less(enrage, Whole(0)) \/ Greater(enrage, Whole(TelosMaxEnrage))
       THEN Throw("Telos enrage must be between 0 and 4000")
    ELSE LET improvementFactor == Add(Whole(1), Div(enrage, Whole(TelosDivisor)))
         IN  Mul(baseDropRate, improvementFactor)

calculateTelosDropRate(enrage, baseDropRate) ==
    IF Less(enrage, Whole(0)) \/ Greater(enrage, Whole(TelosMaxEnrage))
       THEN Throw("Telos enrage must be between 0 and 4000")
    ELSE LET improvementFactor == Add(Whole(1), Div(enrage, Whole(TelosDivisor)))
         IN  Div(baseDropRate, improvementFactor)

calculateZamorakDropRate(enrage, baseDropRate) ==
    IF Less(enrage, Whole(0)) \/ Greater(enrage, Whole(ZamorakMaxEnrage))
       THEN Throw("Zamorak enrage must be between 0 and 4000")
    ELSE LET improvementFactor == Add(Whole(1), Div(enrage, Whole(ZamorakDivisor)))
         IN  Div(baseDropRate, improvementFactor)

\* calculateArchGlacorDropRate with the upper bound of the two other bosses
calculateArchGlacorDropRate_Bounded(enrage, baseDropRate) ==
    IF Less(enrage, Whole(0)) \/ Greater(enrage, Whole(4000))
       THEN Throw("Arch-Glacor enrage must be non-negative")
    ELSE LET improvementFactor ==
                 Add(Whole(1), Div(enrage, Whole(ArchGlacorDivisor)))
         IN  Div(baseDropRate, improvementFactor)

calculateArchGlacorDropRate(enrage, baseDropRate) ==
    IF Less(enrage, Whole(0))
       THEN Throw("Arch-Glacor enrage must be non-negative")
    ELSE LET improvementFactor ==
                 Add(Whole(1), Div(enrage, Whole(ArchGlacorDivisor)))
         IN  Div(baseDropRate, improvementFactor)

calculateEnrageScaledDropRate(boss, enrage, baseDropRate) ==
    CASE boss = "telos" -> calculateTelosDropRate(enrage, baseDropRate)
      [] boss = "zamorak" -> calculateZamorakDropRate(enrage, baseDropRate)
      [] boss = "arch_glacor" -> calculateArchGlacorDropRate(enrage, baseDropRate)
      [] OTHER -> Throw("Unknown enrage-scaling boss")

calculateCumulativeProbabilityWithEnrage(attempts, boss, enrage, baseDropRate) ==
    IF Less(attempts, Whole(0)) THEN Throw("Attempts must be non-negative")
    ELSE IF attempts = Whole(0) THEN Whole(0)
    ELSE LET scaledDropRate ==
                 calculateEnrageScaledDropRate(boss, enrage, baseDropRate)
         IN  IF IsThrow(scaledDropRate) THEN scaledDropRate
             ELSE LET baseProbability == Div(Whole(1), scaledDropRate)
                      probabilityOfNone ==
                          MathPow(Sub(Whole(1), baseProbability), attempts)
                      cumulativeProbability == Sub(Whole(1), probabilityOfNone)
                  IN  MathMin(cumulativeProbability, Num(9999, 10000))

\* the loop of findEnrageForTargetDropRate from the bounds low, high; a throw
\* of calculateEnrageScaledDropRate leaves the loop
RECURSIVE EnrageSearch(_, _, _, _, _)
EnrageSearch(low, high, boss, baseDropRate, targetDropRate) ==
    IF ~Greater(Sub(high, low), Whole(1)) THEN high
    ELSE LET mid == MathFloor(Div(Add(low, high), Whole(2)))
             dropRate == calculateEnrageScaledDropRate(boss, mid, baseDropRate)
         IN  IF IsThrow(dropRate) \/ IsOvf(dropRate) THEN dropRate
             ELSE IF Greater(dropRate, targetDropRate)
                THEN EnrageSearch(mid, high, boss, baseDropRate, targetDropRate)
             ELSE EnrageSearch(low, mid, boss, baseDropRate, targetDropRate)

findEnrageForTargetDropRate(boss, baseDropRate, targetDropRate, maxEnrage) ==
    IF Greater(targetDropRate, baseDropRate)
       THEN Throw("Target drop rate cannot be worse than base rate")
    ELSE EnrageSearch(Whole(0), maxEnrage, boss, baseDropRate, targetDropRate)

---------------------------------------------------------------------------
(* src/unnamed/part_000: the graph data generator *)

SmartMinAttempts == 50
SmartMaxAttempts == 30000

\* for a positive dropRate (1 - 1 / dropRate < 1)
calculateSmartMaxAttempts(dropRate) ==
    LET baseProbability == Div(Whole(1), dropRate)
        attemptsFor99 == CeilLogRatio(Num(1, 100), Sub(Whole(1), baseProbability))
        maxAttempts == MathCeil(Mul(attemptsFor99, Num(12, 10)))
    IN  MathMin(MathMax(maxAttempts, Whole(SmartMinAttempts)),
                Whole(SmartMaxAttempts))

\* the for loop of generateAttemptValues from the index i on
RECURSIVE AttemptLoop(_, _, _, _)
AttemptLoop(i, step, maxAttempts, attempts) ==
    IF ~Less(i, maxAttempts) THEN attempts
    ELSE AttemptLoop(Add(i, step), step, maxAttempts, Append(attempts, i))

\* generateAttemptValues without its last step: the maximum is not added
generateAttemptValues_NoMax(maxAttempts, maxDataPoints) ==
    LET step == MathCeil(Div(maxAttempts, Sub(maxDataPoints, Whole(1))))
        attempts == AttemptLoop(step, step, maxAttempts, <<Whole(0)>>)
    IN  [k |-> "list", items |-> attempts]

\* for maxDataPoints # 1; the array is returned as [k |-> "list", items |-> it];
\* NaN !== NaN is true in JavaScript
generateAttemptValues(maxAttempts, maxDataPoints) ==
    LET step == MathCeil(Div(maxAttempts, Sub(maxDataPoints, Whole(1))))
        attempts == AttemptLoop(step, step, maxAttempts, <<Whole(0)>>)
    IN  [k |-> "list",
         items |-> IF attempts[Len(attempts)] # maxAttempts \/ IsNaN(maxAttempts)
                      THEN Append(attempts, maxAttempts)
                      ELSE attempts]

\* an optional field that is absent
Undefined == [k |-> "undefined", n |-> 0, d |-> 1, msg |-> ""]

\* x ?? fallback
OrElse(x, fallback) == IF x = Undefined THEN fallback ELSE x

\* boss: null
NullBoss == [isNull |-> TRUE]

\* a data point, as opposed to a thrown Error
IsPoint(p) == "attempts" \in DOMAIN p

\* dataPoint[key] = value inside `if (condition)`: an Error thrown while the
\* value is computed, or thrown before, takes the place of the point
WithKey(dataPoint, condition, key, value) ==
    IF ~IsPoint(dataPoint) \/ ~condition THEN dataPoint
    ELSE IF IsThrow(value) THEN value
    ELSE dataPoint @@ [name \in {key} |-> value]

\* calculateCumulativeProbability(attempt, rate) for a rate whose own
\* calculation may have thrown
CumulativeAtRate(attempt, rate) ==
    IF IsThrow(rate) THEN rate ELSE calculateCumulativeProbability(attempt, rate)

\* the callback of generateGraphData's map that adds withBoth whenever both
\* modifiers are enabled, applicable to the boss or not
GraphPoint_BothUnchecked(attempt, options) ==
    LET boss == options.boss
        blmApplicable == IF boss.isNull THEN FALSE ELSE boss.bad_luck_mitigation
        blmStart == IF boss.isNull THEN Whole(10)
                    ELSE OrElse(boss.mitigation_start, Whole(10))
        blmCap == IF boss.isNull THEN Whole(20)
                  ELSE OrElse(boss.mitigation_cap, Whole(20))
        luckApplicable == IF boss.isNull THEN FALSE ELSE boss.luck_applicable
        hasEnrage == ~boss.isNull /\ boss.type = "enrage_scaling"
    IN  WithKey(
          WithKey(
            WithKey(
              WithKey(
                WithKey([attempts |-> attempt], TRUE, "base",
                        calculateCumulativeProbability(attempt, options.dropRate)),
                options.luckEnabled /\ luckApplicable, "withLuck",
                calculateCumulativeProbabilityWithLuck(attempt, options.dropRate)),
              options.blmEnabled /\ blmApplicable, "withBLM",
              calculateCumulativeProbabilityWithBLM(
                  attempt, options.dropRate, blmStart, blmCap)),
            options.luckEnabled /\ options.blmEnabled, "withBoth",
            calculateCumulativeProbabilityWithLuckAndBLM(
                attempt, options.dropRate, blmStart, blmCap)),
          /\ hasEnrage /\ Greater(options.enrage, Whole(0))
          /\ ~boss.isNull /\ ~options.itemIsNull,
          "withEnrage",
          CumulativeAtRate(attempt,
                           calculateEnrageScaledDropRate(
                               boss.formula_type, options.enrage, options.dropRate)))

\* the callback of generateGraphData's map: the data point of one attempt
\* value, or the Error one of its calculations throws.  A value the model
\* cannot represent is the value Ovf of its key.
GraphPoint(attempt, options) ==
    LET boss == options.boss
        blmApplicable == IF boss.isNull THEN FALSE ELSE boss.bad_luck_mitigation
        blmStart == IF boss.isNull THEN Whole(10)
                    ELSE OrElse(boss.mitigation_start, Whole(10))
        blmCap == IF boss.isNull THEN Whole(20)
                  ELSE OrElse(boss.mitigation_cap, Whole(20))
        luckApplicable == IF boss.isNull THEN FALSE ELSE boss.luck_applicable
        hasEnrage == ~boss.isNull /\ boss.type = "enrage_scaling"
    IN  WithKey(
          WithKey(
            WithKey(
              WithKey(
                WithKey([attempts |-> attempt], TRUE, "base",
                        calculateCumulativeProbability(attempt, options.dropRate)),
                options.luckEnabled /\ luckApplicable, "withLuck",
                calculateCumulativeProbabilityWithLuck(attempt, options.dropRate)),
              options.blmEnabled /\ blmApplicable, "withBLM",
              calculateCumulativeProbabilityWithBLM(
                  attempt, options.dropRate, blmStart, blmCap)),
            /\ options.luckEnabled /\ options.blmEnabled
            /\ luckApplicable /\ blmApplicable, "withBoth",
            calculateCumulativeProbabilityWithLuckAndBLM(
                attempt, options.dropRate, blmStart, blmCap)),
          /\ hasEnrage /\ Greater(options.enrage, Whole(0))
          /\ ~boss.isNull /\ ~options.itemIsNull,
          "withEnrage",
          CumulativeAtRate(attempt,
                           calculateEnrageScaledDropRate(
                               boss.formula_type, options.enrage, options.dropRate)))

\* attemptValues.map(callback)
MapAttempts(attemptValues, options) ==
    [i \in 1..Len(attemptValues) |-> GraphPoint(attemptValues[i], options)]

\* the array of the points, unless a callback threw: the first Error thrown
\* ends the map
PointsOrError(points) ==
    LET thrown == {i \in 1..Len(points) : ~IsPoint(points[i])}
    IN  IF thrown # {}
           THEN points[CHOOSE i \in thrown : \A j \in thrown : i <= j]
        ELSE IF \E i \in 1..Len(points) : IsOvf(points[i].attempts) THEN Ovf
        ELSE [k |-> "list", items |-> points]

generateGraphData(options) ==
    PointsOrError(
        MapAttempts(
            generateAttemptValues(calculateSmartMaxAttempts(options.dropRate),
                                  options.maxDataPoints).items,
            options))

\* getActiveLines that keeps the single-modifier lines next to the combined
\* one
getActiveLines_NoSuppression(luckEnabled, blmEnabled, luckApplicable, blmApplicable) ==
    LET showLuck == luckEnabled /\ luckApplicable
        showBLM == blmEnabled /\ blmApplicable
        showBoth == showLuck /\ showBLM
    IN  [k |-> "obj", showBase |-> TRUE, showLuck |-> showLuck,
         showBLM |-> showBLM, showBoth |-> showBoth]

\* getActiveLines(luckEnabled, blmEnabled, luckApplicable, blmApplicable):
\* which lines of the chart ProbabilityGraph draws
getActiveLines(luckEnabled, blmEnabled, luckApplicable, blmApplicable) ==
    LET showLuck == luckEnabled /\ luckApplicable
        showBLM == blmEnabled /\ blmApplicable
        showBoth == showLuck /\ showBLM
    IN  [k |-> "obj", showBase |-> TRUE, showLuck |-> showLuck /\ ~showBoth,
         showBLM |-> showBLM /\ ~showBoth, showBoth |-> showBoth]

---------------------------------------------------------------------------
(* src/components/MilestoneCards.tsx *)

\* the if-chain of MilestoneCards that tests luck before the combination:
\* both modifiers active ends in the luck-only solver
milestoneSolver_LuckFirst(luckEnabled, luckApplicable, badLuckMitigationEnabled, blmApplicable) ==
    IF luckEnabled /\ luckApplicable THEN "findMilestoneAttemptsWithLuck"
    ELSE IF luckEnabled /\ luckApplicable /\ badLuckMitigationEnabled /\ blmApplicable
       THEN "findMilestoneAttemptsWithLuckAndBLM"
    ELSE IF badLuckMitigationEnabled /\ blmApplicable THEN "findMilestoneAttemptsWithBLM"
    ELSE "findMilestoneAttempts"

\* the if-chain of MilestoneCards: the function that computes
\* modifiedAttempts (the base solver when no branch is taken)
milestoneSolver(luckEnabled, luckApplicable, badLuckMitigationEnabled, blmApplicable) ==
    IF luckEnabled /\ luckApplicable /\ badLuckMitigationEnabled /\ blmApplicable
       THEN "findMilestoneAttemptsWithLuckAndBLM"
    ELSE IF luckEnabled /\ luckApplicable THEN "findMilestoneAttemptsWithLuck"
    ELSE IF badLuckMitigationEnabled /\ blmApplicable THEN "findMilestoneAttemptsWithBLM"
    ELSE "findMilestoneAttempts"

\* modifiedAttempts as the chosen solver computes it
modifiedAttempts(solver, prob, rate, blmStart, blmCap) ==
    CASE solver = "findMilestoneAttemptsWithLuckAndBLM" ->
             findMilestoneAttemptsWithLuckAndBLM(prob, rate, blmStart, blmCap)
      [] solver = "findMilestoneAttemptsWithLuck" ->
             findMilestoneAttemptsWithLuck(prob, rate)
      [] solver = "findMilestoneAttemptsWithBLM" ->
             findMilestoneAttemptsWithBLM(prob, rate, blmStart, blmCap)
      [] solver = "findMilestoneAttempts" -> findMilestoneAttempts(prob, rate)

\* one element of `milestones`, or the Error one of its solvers throws; a
\* count the model cannot represent is the value Ovf of its field.  `solver`
\* names the function that computed modifiedAttempts.
Milestone(prob, solver, baseAttempts, modified) ==
    IF IsThrow(baseAttempts) THEN baseAttempts
    ELSE IF IsThrow(modified) THEN modified
    ELSE [k |-> "obj", probability |-> prob, baseAttempts |-> baseAttempts,
          modifiedAttempts |-> modified,
          savings |-> Sub(baseAttempts, modified), solver |-> solver]

\* probabilities.map(...) for one probability
MilestoneFor(prob, rate, solver, blmStart, blmCap) ==
    Milestone(prob, solver, findMilestoneAttempts(prob, rate),
              modifiedAttempts(solver, prob, rate, blmStart, blmCap))

\* the three milestones, unless a solver threw
MilestonesOrError(milestones) ==
    LET thrown == {i \in 1..Len(milestones) : IsThrow(milestones[i])}
    IN  IF thrown # {}
           THEN milestones[CHOOSE i \in thrown : \A j \in thrown : i <= j]
        ELSE [k |-> "list", items |-> milestones]

\* MilestoneCards({boss, item, luckEnabled, badLuckMitigationEnabled}): the
\* `milestones` it renders, for the probabilities 0.5, 0.9 and 0.99
MilestoneCards(boss, rate, luckEnabled, badLuckMitigationEnabled) ==
    MilestonesOrError(
        [i \in 1..3 |->
            MilestoneFor(<<Num(1, 2), Num(9, 10), Num(99, 100)>>[i], rate,
                         milestoneSolver(luckEnabled, boss.luck_applicable,
                                         badLuckMitigationEnabled, boss.bad_luck_mitigation),
                         OrElse(boss.mitigation_start, Whole(10)),
                         OrElse(boss.mitigation_cap, Whole(20)))])

---------------------------------------------------------------------------
(* The locals of a binary search that runs one iteration per step *)

\* no search is running
IdleFrame ==
    [pc |-> "idle", low |-> Undefined, high |-> Undefined, mid |-> Undefined,
     iteration |-> 0]

\* Math.floor((low + high) / 2)
Midpoint(low, high) == MathFloor(Div(Add(low, high), Whole(2)))

---------------------------------------------------------------------------
(* The boss database and its accessors                                     *)
(* (src/tasks/prd-rs3-drop-calculator.md:784-852, bossData utilities;      *)
(* src/unnamed/part_002:229-400, the types).  The data file bosses.json is *)
(* not part of the sources: the database of the model holds one boss for   *)
(* every combination of mechanic type, applicability flags and presence of *)
(* enrage_config, unique_table and direct_drops.                           *)

\* an optional field that is present holds a record with k = "obj"
IsUndefined(x) == x.k = "undefined"

\* selectedItem: null
NullItem == [isNull |-> TRUE]

DropMechanicType == {"table_based", "direct", "enrage_scaling", "threshold"}

\* the largest enrage of a modelled enrage_config (its slider runs over
\* 0..MaxEnrageConfig)
MaxEnrageConfig == 2

EnrageConfigs ==
    {Undefined,
     [k |-> "obj", min_enrage |-> 0, max_enrage |-> MaxEnrageConfig,
      formula_type |-> "telos"]}

\* unique_table.items with their final_rate
UniqueTables ==
    {Undefined,
     [k |-> "obj",
      items |-> <<[item_id |-> "torva_helm", final_rate |-> Whole(2)],
                  [item_id |-> "zaryte_bow", final_rate |-> Num(101, 100)]>>]}

DirectDrops ==
    {Undefined,
     [k |-> "obj",
      items |-> <<[item_id |-> "armadyl_helmet", drop_rate |-> Whole(2)]>>]}

\* boss_name of the bosses of one mechanic type, as a sequence of characters
BossName(type) ==
    CASE type = "table_based" -> <<"N", "e", "x">>
      [] type = "direct" -> <<"K", "r", "e", "e">>
      [] type = "enrage_scaling" -> <<"T", "e", "l", "o", "s">>
      [] type = "threshold" -> <<"V", "o", "r", "a", "g", "o">>

\* getAllBosses(): a boss with the fields of its drop_mechanics
allBosses ==
    {[k |-> "obj", isNull |-> FALSE,
      boss_id |-> <<t, l, b, e.k, u.k, d.k>>, boss_name |-> BossName(t),
      type |-> t, luck_applicable |-> l, bad_luck_mitigation |-> b,
      mitigation_start |-> Undefined, mitigation_cap |-> Undefined,
      enrage_config |-> e,
      formula_type |-> IF IsUndefined(e) THEN "undefined" ELSE e.formula_type,
      unique_table |-> u, direct_drops |-> d] :
        t \in DropMechanicType, l \in BOOLEAN, b \in BOOLEAN,
        e \in EnrageConfigs, u \in UniqueTables, d \in DirectDrops}

\* the value of the "-- Select a boss --" option
NoBossId == <<>>

\* allBosses.find(b => b.boss_id === bossId): a boss, or undefined
getBossById(bossId) ==
    LET found == {b \in allBosses : b.boss_id = bossId}
    IN  IF found = {} THEN Undefined ELSE CHOOSE b \in found : TRUE

\* the DropItems of a unique_table
TableItems(items) ==
    [i \in 1..Len(items) |->
        [isNull |-> FALSE, id |-> items[i].item_id,
         rate |-> items[i].final_rate, mechanic_type |-> "table_based"]]

\* the DropItems of direct_drops
DirectItems(drops) ==
    [i \in 1..Len(drops) |->
        [isNull |-> FALSE, id |-> drops[i].item_id,
         rate |-> drops[i].drop_rate, mechanic_type |-> "direct"]]

\* getItemsForBoss that builds the items of whatever drop data the boss has
getItemsForBoss_AnyType(bossId) ==
    LET boss == getBossById(bossId)
    IN  IF IsUndefined(boss) THEN <<>>
        ELSE (IF ~IsUndefined(boss.unique_table)
                 THEN TableItems(boss.unique_table.items) ELSE <<>>)
             \o (IF ~IsUndefined(boss.direct_drops)
                    THEN DirectItems(boss.direct_drops.items) ELSE <<>>)

getItemsForBoss(bossId) ==
    LET boss == getBossById(bossId)
    IN  IF IsUndefined(boss) THEN <<>>
        ELSE (IF boss.type = "table_based" /\ ~IsUndefined(boss.unique_table)
                 THEN TableItems(boss.unique_table.items) ELSE <<>>)
             \o (IF boss.type = "direct" /\ ~IsUndefined(boss.direct_drops)
                    THEN DirectItems(boss.direct_drops.items) ELSE <<>>)

---------------------------------------------------------------------------
(* src/components/BossSelector.tsx *)

\* String.prototype.toLowerCase on the letters the model uses
ToLowerCase(text) ==
    [i \in 1..Len(text) |->
        CASE text[i] = "N" -> "n" [] text[i] = "K" -> "k"
          [] text[i] = "T" -> "t" [] text[i] = "V" -> "v"
          [] text[i] = "E" -> "e" [] OTHER -> text[i]]

\* text.includes(part)
Includes(text, part) ==
    \E i \in 0..(Len(text) - Len(part)) :
        \A j \in 1..Len(part) : text[i + j] = part[j]

\* searchTerm.trim() is the empty string
IsBlank(text) == \A i \in 1..Len(text) : text[i] = " "

filteredBosses(searchTerm) ==
    IF IsBlank(searchTerm) THEN allBosses
    ELSE {boss \in allBosses :
             Includes(ToLowerCase(boss.boss_name), ToLowerCase(searchTerm))}

InitialSelector == [searchTerm |-> <<>>]

---------------------------------------------------------------------------
(* src/components/RS3DropCalculator.tsx *)

InitialCalculator ==
    [selectedBoss |-> NullBoss, selectedItem |-> NullItem,
     luckEnabled |-> FALSE, badLuckMitigationEnabled |-> TRUE,
     enrage |-> Whole(0)]

\* handleBossSelect that leaves the selected item alone
handleBossSelect_KeepsItem(state, boss) ==
    [state EXCEPT
        !.selectedBoss = boss,
        !.enrage = Whole(0),
        !.luckEnabled = IF boss.isNull THEN @ ELSE boss.luck_applicable,
        !.badLuckMitigationEnabled =
            IF boss.isNull THEN @ ELSE boss.bad_luck_mitigation]

\* handleBossSelect that leaves the modifier flags alone
handleBossSelect_KeepsFlags(state, boss) ==
    [state EXCEPT
        !.selectedBoss = boss,
        !.selectedItem = NullItem,
        !.enrage = Whole(0)]

\* handleBossSelect(boss): the state of the calculator after it, from `state`
handleBossSelect(state, boss) ==
    [state EXCEPT
        !.selectedBoss = boss,
        !.selectedItem = NullItem,
        !.enrage = Whole(0),
        !.luckEnabled = IF boss.isNull THEN @ ELSE boss.luck_applicable,
        !.badLuckMitigationEnabled =
            IF boss.isNull THEN @ ELSE boss.bad_luck_mitigation]

\* the results section is rendered: selectedBoss && selectedItem
ResultsShown(state) == ~state.selectedBoss.isNull /\ ~state.selectedItem.isNull

\* the options ProbabilityGraph passes to generateGraphData
ProbabilityGraphOptions(state) ==
    [dropRate |-> state.selectedItem.rate, luckEnabled |-> state.luckEnabled,
     blmEnabled |-> state.badLuckMitigationEnabled, enrage |-> state.enrage,
     boss |-> state.selectedBoss, itemIsNull |-> FALSE,
     maxDataPoints |-> Whole(60)]

---------------------------------------------------------------------------
(* The inputs *)

RateDens == {1, 2, 4}

Rates == {Num(n, d) : n \in -1..MaxRateNum, d \in RateDens}

PositiveRates == {r \in Rates : r.n > 0}

Attempts == {Whole(i) : i \in -1..MaxAttempts}

Targets == {Whole(0), Num(1, 2), Num(9, 10), Num(99, 100), Num(9999, 10000),
            Num(19999, 20000), Whole(1)}

Starts == {Whole(i) : i \in -1..MaxStart}

Caps == {Num(n, d) : n \in 0..MaxCapNum, d \in {1, 2}}

\* the components of a table-based configuration
TableValues == {Whole(i) : i \in 0..MaxTableValue}

\* the arguments of one stage, called on its own
StageValues == {Whole(i) : i \in -1..MaxTableValue} \cup {Whole(6), Whole(128)}

Bosses == {"telos", "zamorak", "arch_glacor", "vorago"}

Enrages == {Whole(e) : e \in {-1, 0, 1, 500, 1000, 3000, 4000, 4001, 4800}}

\* the largest of the small search ranges of findEnrageForTargetDropRate
MaxSmallEnrage == 3

MaxEnrages == {Whole(e) : e \in (1..MaxSmallEnrage) \cup {1000, 4000, 4800}}

\* the targets of the enrage search for a base rate: rates, and the scaled
\* rates of Telos at a few enrage values
EnrageTargets(baseDropRate) ==
    PositiveRates \cup
    {Mul(baseDropRate, Num(1000, 1000 + e)) : e \in {1, 2, 500, 4000}}

\* the configurations the documentation and the tests use
\* (badLuckMitigation.ts:25-26, badLuckMitigation.test.ts:14-53,
\*  tableBased.ts:60-61, tableBased.test.ts:66-76)
DocumentedKills ==
    [killNumber : {Whole(i) : i \in {1, 10, 11, 15, 118, 119}},
     baseDenominator : {Whole(128)},
     mitigationStart : {Whole(10)},
     mitigationCap : {Whole(20)}]

DocumentedTables ==
    [tableNumerator : {Whole(6)}, tableDenominator : {Whole(128)},
     itemWeight : {Whole(2), Whole(5)}, totalWeight : {Whole(12)}]

\* maxAttempts of generateAttemptValues is drawn from 0..MaxSampleAttempts
\* (and 50, 100), maxDataPoints from 2..MaxDataPoints (and 60)
MaxSampleAttempts == 10
MaxDataPoints == 5

\* the optional pity fields of a boss: both absent, or a start of 1 with a
\* cap of 0 (which getDropRateForKill rejects)
GraphPityFields ==
    {[mitigation_start |-> Undefined, mitigation_cap |-> Undefined],
     [mitigation_start |-> Whole(1), mitigation_cap |-> Whole(0)]}

\* the bosses of generateGraphData: null, and the drop_mechanics of a direct
\* and of an enrage-scaling boss, with and without the optional fields
GraphBosses ==
    {NullBoss} \cup
    {[isNull |-> FALSE, type |-> t, bad_luck_mitigation |-> b,
      luck_applicable |-> l, mitigation_start |-> p.mitigation_start,
      mitigation_cap |-> p.mitigation_cap, formula_type |-> f] :
        t \in {"direct", "enrage_scaling"}, b \in BOOLEAN, l \in BOOLEAN,
        p \in GraphPityFields, f \in {"undefined", "telos"}}

\* a drop rate below 1 (NaN attempts) and one above
GraphRates == {Num(1, 2), Whole(2)}

GraphOptions ==
    [dropRate : GraphRates, luckEnabled : BOOLEAN, blmEnabled : BOOLEAN,
     enrage : {Whole(0), Whole(1000), Whole(4001)},
     boss : GraphBosses, itemIsNull : BOOLEAN,
     maxDataPoints : {Whole(2), Whole(3)}]

\* the bosses of MilestoneCards: the pity fields absent, or a start of 1
\* with a cap of 2
MilestoneBosses ==
    {[luck_applicable |-> l, bad_luck_mitigation |-> b,
      mitigation_start |-> p[1], mitigation_cap |-> p[2]] :
        l \in BOOLEAN, b \in BOOLEAN,
        p \in {<<Undefined, Undefined>>, <<Whole(1), Whole(2)>>}}

\* item rates whose milestones the model can compute: for each solver one
\* of them gives a representable count
MilestoneRates == {Whole(1), Num(101, 100), Whole(2)}

PityArgs ==
    [attempts : Attempts, baseDenominator : Rates,
     mitigationStart : Starts, mitigationCap : Caps]

PityTargetArgs ==
    [targetProbability : Targets, baseDenominator : Rates,
     mitigationStart : Starts, mitigationCap : Caps]

TableArgs ==
    [tableNumerator : TableValues, tableDenominator : TableValues,
     itemWeight : TableValues, totalWeight : TableValues] \cup DocumentedTables

ArgsOf(f) ==
    CASE f = "calculateCumulativeProbability" ->
             [attempts : Attempts, dropRate : Rates]
      [] f = "findMilestoneAttempts" ->
             [targetProbability : Targets, dropRate : Rates]
      [] f = "getDropRateForKill" ->
             [killNumber : {Whole(i) : i \in 0..MaxAttempts},
              baseDenominator : Rates,
              mitigationStart : Starts, mitigationCap : Caps]
                 \cup DocumentedKills
      [] f = "calculateCumulativeProbabilityWithBLM" -> PityArgs
      [] f = "findMilestoneAttemptsWithBLM" -> PityTargetArgs
      [] f = "compareBLMImpact" ->
             {a \in PityArgs : a.baseDenominator.n > 0 /\ a.attempts.n >= 0}
      [] f = "applyLuckToDropRate" -> [baseDenominator : Rates]
      [] f = "calculateCumulativeProbabilityWithLuck" ->
             [attempts : Attempts, baseDenominator : Rates]
      [] f = "findMilestoneAttemptsWithLuck" ->
             [targetProbability : Targets, baseDenominator : Rates]
      [] f = "calculateCumulativeProbabilityWithLuckAndBLM" -> PityArgs
      [] f = "findMilestoneAttemptsWithLuckAndBLM" -> PityTargetArgs
      [] f = "compareAllModifiers" -> PityArgs
      [] f = "calculateTableBasedDropRate" -> TableArgs
      [] f = "calculateTableBasedCumulativeProbability" ->
             {[attempts |-> t] @@ c : t \in Attempts, c \in TableArgs}
      [] f = "findTableBasedMilestoneAttempts" ->
             {[targetProbability |-> t] @@ c : t \in Targets, c \in TableArgs}
      [] f = "getTableBasedDropBreakdown" -> TableArgs
      [] f = "calculateTableHitProbability" ->
             [numerator : StageValues, denominator : StageValues]
      [] f = "calculateItemFromTableProbability" ->
             [itemWeight : StageValues, totalWeight : StageValues]
      [] f = "calculateEnrageScaledDropRate" ->
             [boss : Bosses, enrage : Enrages, baseDropRate : PositiveRates]
      [] f = "findEnrageForTargetDropRate" ->
             UNION {[boss : Bosses, baseDropRate : {b},
                     targetDropRate : EnrageTargets(b), maxEnrage : MaxEnrages]
                        : b \in PositiveRates}
      [] f = "calculateSmartMaxAttempts" -> [dropRate : PositiveRates]
      [] f = "generateAttemptValues" ->
             [maxAttempts : {Whole(i) : i \in (0..MaxSampleAttempts) \cup {50, 100}},
              maxDataPoints : {Whole(i) : i \in (2..MaxDataPoints) \cup {60}}]
      [] f = "generateGraphData" -> [options : GraphOptions]
      [] f = "calculateCumulativeProbabilityWithEnrage" ->
             [attempts : Attempts, boss : Bosses, enrage : Enrages,
              baseDropRate : PositiveRates]
      [] f = "getActiveLines" ->
             [luckEnabled : BOOLEAN, blmEnabled : BOOLEAN,
              luckApplicable : BOOLEAN, blmApplicable : BOOLEAN]
      [] f = "MilestoneCards" ->
             [boss : MilestoneBosses, rate : MilestoneRates,
              luckEnabled : BOOLEAN, badLuckMitigationEnabled : BOOLEAN]

Functions ==
    {"calculateCumulativeProbability", "findMilestoneAttempts",
     "getDropRateForKill", "calculateCumulativeProbabilityWithBLM",
     "findMilestoneAttemptsWithBLM", "compareBLMImpact",
     "applyLuckToDropRate", "calculateCumulativeProbabilityWithLuck",
     "findMilestoneAttemptsWithLuck",
     "calculateCumulativeProbabilityWithLuckAndBLM",
     "findMilestoneAttemptsWithLuckAndBLM", "compareAllModifiers",
     "calculateTableBasedDropRate", "calculateTableBasedCumulativeProbability",
     "findTableBasedMilestoneAttempts", "getTableBasedDropBreakdown",
     "calculateTableHitProbability", "calculateItemFromTableProbability",
     "calculateEnrageScaledDropRate", "findEnrageForTargetDropRate",
     "calculateSmartMaxAttempts", "generateAttemptValues", "generateGraphData",
     "calculateCumulativeProbabilityWithEnrage", "getActiveLines",
     "MilestoneCards"}

---------------------------------------------------------------------------
(* The calls *)

Init ==
    /\ fn \in Functions
    /\ args \in ArgsOf(fn)
    /\ ret = Pending
    /\ frame = IdleFrame
    /\ calculator = InitialCalculator
    /\ selector = InitialSelector

\* the call of f returns r (a value or a thrown Error)
Return(f, r) ==
    /\ fn = f
    /\ ret = Pending
    /\ ~IsOvf(r)
    /\ ret' = r
    /\ UNCHANGED <<fn, args, frame, calculator, selector>>

Call_calculateCumulativeProbability ==
    /\ fn = "calculateCumulativeProbability"
    /\ Return(fn, calculateCumulativeProbability(args.attempts, args.dropRate))

Call_findMilestoneAttempts ==
    /\ fn = "findMilestoneAttempts"
    /\ Return(fn, findMilestoneAttempts(args.targetProbability, args.dropRate))

Call_getDropRateForKill ==
    /\ fn = "getDropRateForKill"
    /\ Return(fn, getDropRateForKill(args.killNumber, args.baseDenominator,
                                     args.mitigationStart, args.mitigationCap))

Call_calculateCumulativeProbabilityWithBLM ==
    /\ fn = "calculateCumulativeProbabilityWithBLM"
    /\ Return(fn, calculateCumulativeProbabilityWithBLM(
                      args.attempts, args.baseDenominator,
                      args.mitigationStart, args.mitigationCap))

Call_findMilestoneAttemptsWithBLM ==
    /\ fn = "findMilestoneAttemptsWithBLM"
    /\ Return(fn, findMilestoneAttemptsWithBLM(
                      args.targetProbability, args.baseDenominator,
                      args.mitigationStart, args.mitigationCap))

Call_compareBLMImpact ==
    /\ fn = "compareBLMImpact"
    /\ Return(fn, compareBLMImpact(args.attempts, args.baseDenominator,
                                   args.mitigationStart, args.mitigationCap))

Call_applyLuckToDropRate ==
    /\ fn = "applyLuckToDropRate"
    /\ Return(fn, applyLuckToDropRate(args.baseDenominator))

Call_calculateCumulativeProbabilityWithLuck ==
    /\ fn = "calculateCumulativeProbabilityWithLuck"
    /\ Return(fn, calculateCumulativeProbabilityWithLuck(
                      args.attempts, args.baseDenominator))

Call_findMilestoneAttemptsWithLuck ==
    /\ fn = "findMilestoneAttemptsWithLuck"
    /\ Return(fn, findMilestoneAttemptsWithLuck(
                      args.targetProbability, args.baseDenominator))

Call_calculateCumulativeProbabilityWithLuckAndBLM ==
    /\ fn = "calculateCumulativeProbabilityWithLuckAndBLM"
    /\ Return(fn, calculateCumulativeProbabilityWithLuckAndBLM(
                      args.attempts, args.baseDenominator,
                      args.mitigationStart, args.mitigationCap))

Call_findMilestoneAttemptsWithLuckAndBLM ==
    /\ fn = "findMilestoneAttemptsWithLuckAndBLM"
    /\ Return(fn, findMilestoneAttemptsWithLuckAndBLM(
                      args.targetProbability, args.baseDenominator,
                      args.mitigationStart, args.mitigationCap))

Call_compareAllModifiers ==
    /\ fn = "compareAllModifiers"
    /\ Return(fn, compareAllModifiers(args.attempts, args.baseDenominator,
                                      args.mitigationStart, args.mitigationCap))

Call_calculateTableBasedDropRate ==
    /\ fn = "calculateTableBasedDropRate"
    /\ Return(fn, calculateTableBasedDropRate(
                      args.tableNumerator, args.tableDenominator,
                      args.itemWeight, args.totalWeight))

Call_calculateTableBasedCumulativeProbability ==
    /\ fn = "calculateTableBasedCumulativeProbability"
    /\ Return(fn, calculateTableBasedCumulativeProbability(
                      args.attempts, args.tableNumerator, args.tableDenominator,
                      args.itemWeight, args.totalWeight))

Call_findTableBasedMilestoneAttempts ==
    /\ fn = "findTableBasedMilestoneAttempts"
    /\ Return(fn, findTableBasedMilestoneAttempts(
                      args.targetProbability, args.tableNumerator,
                      args.tableDenominator, args.itemWeight, args.totalWeight))

Call_getTableBasedDropBreakdown ==
    /\ fn = "getTableBasedDropBreakdown"
    /\ Return(fn, getTableBasedDropBreakdown(
                      args.tableNumerator, args.tableDenominator,
                      args.itemWeight, args.totalWeight))

Call_calculateTableHitProbability ==
    /\ fn = "calculateTableHitProbability"
    /\ Return(fn, calculateTableHitProbability(args.numerator, args.denominator))

Call_calculateItemFromTableProbability ==
    /\ fn = "calculateItemFromTableProbability"
    /\ Return(fn, calculateItemFromTableProbability(args.itemWeight,
                                                    args.totalWeight))

Call_calculateEnrageScaledDropRate ==
    /\ fn = "calculateEnrageScaledDropRate"
    /\ Return(fn, calculateEnrageScaledDropRate(args.boss, args.enrage,
                                                args.baseDropRate))

Call_findEnrageForTargetDropRate ==
    /\ fn = "findEnrageForTargetDropRate"
    /\ Return(fn, findEnrageForTargetDropRate(
                      args.boss, args.baseDropRate, args.targetDropRate,
                      args.maxEnrage))

Call_calculateSmartMaxAttempts ==
    /\ fn = "calculateSmartMaxAttempts"
    /\ Return(fn, calculateSmartMaxAttempts(args.dropRate))

Call_generateAttemptValues ==
    /\ fn = "generateAttemptValues"
    /\ Return(fn, generateAttemptValues(args.maxAttempts, args.maxDataPoints))

Call_generateGraphData ==
    /\ fn = "generateGraphData"
    /\ Return(fn, generateGraphData(args.options))

Call_calculateCumulativeProbabilityWithEnrage ==
    /\ fn = "calculateCumulativeProbabilityWithEnrage"
    /\ Return(fn, calculateCumulativeProbabilityWithEnrage(
                      args.attempts, args.boss, args.enrage, args.baseDropRate))

Call_getActiveLines ==
    /\ fn = "getActiveLines"
    /\ Return(fn, getActiveLines(args.luckEnabled, args.blmEnabled,
                                 args.luckApplicable, args.blmApplicable))

Call_MilestoneCards ==
    /\ fn = "MilestoneCards"
    /\ Return(fn, MilestoneCards(args.boss, args.rate, args.luckEnabled,
                                 args.badLuckMitigationEnabled))

Next ==
    \/ Call_calculateCumulativeProbability
    \/ Call_findMilestoneAttempts
    \/ Call_getDropRateForKill
    \/ Call_calculateCumulativeProbabilityWithBLM
    \/ Call_findMilestoneAttemptsWithBLM
    \/ Call_compareBLMImpact
    \/ Call_applyLuckToDropRate
    \/ Call_calculateCumulativeProbabilityWithLuck
    \/ Call_findMilestoneAttemptsWithLuck
    \/ Call_calculateCumulativeProbabilityWithLuckAndBLM
    \/ Call_findMilestoneAttemptsWithLuckAndBLM
    \/ Call_compareAllModifiers
    \/ Call_calculateTableBasedDropRate
    \/ Call_calculateTableBasedCumulativeProbability
    \/ Call_findTableBasedMilestoneAttempts
    \/ Call_getTableBasedDropBreakdown
    \/ Call_calculateTableHitProbability
    \/ Call_calculateItemFromTableProbability
    \/ Call_calculateEnrageScaledDropRate
    \/ Call_findEnrageForTargetDropRate
    \/ Call_calculateSmartMaxAttempts
    \/ Call_generateAttemptValues
    \/ Call_generateGraphData
    \/ Call_calculateCumulativeProbabilityWithEnrage
    \/ Call_getActiveLines
    \/ Call_MilestoneCards

Spec == Init /\ [][Next]_vars

---------------------------------------------------------------------------
(* The binary searches, one loop iteration per step *)

\* a search performs at most MaxIterations loop iterations in the model
MaxIterations == 8

\* maxEnrage of the stepped enrage search: whole and fractional values
StepMaxEnrages == {Num(n, 2) : n \in 0..8}

\* the denominators of the stepped milestone searches: small ones, whose
\* folds the model computes, and large ones, whose first probe it reaches
SmallDenominators == {Whole(1), Num(101, 100), Whole(2)}
LargeDenominators == {Whole(6000), Whole(6001), Whole(10000)}

\* the pity configurations MilestoneCards passes: the defaults (start 10,
\* cap 20) or the boss's own; the large denominators come with the defaults
StepConfigurations ==
    (SmallDenominators \X {<<Whole(10), Whole(20)>>, <<Whole(1), Whole(2)>>})
        \cup (LargeDenominators \X {<<Whole(10), Whole(20)>>})

StepFunctions ==
    {"findEnrageForTargetDropRate", "findMilestoneAttemptsWithBLM",
     "findMilestoneAttemptsWithLuckAndBLM"}

StepArgsOf(f) ==
    IF f = "findEnrageForTargetDropRate"
       THEN [boss : Bosses, baseDropRate : {Whole(1), Whole(2)},
             targetDropRate : {Num(1, 2), Whole(1), Num(3, 2), Whole(2)},
             maxEnrage : StepMaxEnrages]
       ELSE UNION {[targetProbability :
                       {Whole(0), Num(1, 2), Num(9, 10), Num(99, 100)},
                    baseDenominator : {b},
                    mitigationStart : {p[1]}, mitigationCap : {p[2]}] :
                      <<b, p>> \in StepConfigurations}

StepInit ==
    /\ fn \in StepFunctions
    /\ args \in StepArgsOf(fn)
    /\ ret = Pending
    /\ frame = [IdleFrame EXCEPT !.pc = "entry"]
    /\ calculator = InitialCalculator
    /\ selector = InitialSelector

\* findEnrageForTargetDropRate up to its loop: the check of the target and
\* let low = 0, high = maxEnrage
Enrage_Enter ==
    /\ fn = "findEnrageForTargetDropRate"
    /\ frame.pc = "entry"
    /\ IF Greater(args.targetDropRate, args.baseDropRate)
          THEN /\ ret' = Throw("Target drop rate cannot be worse than base rate")
               /\ frame' = [frame EXCEPT !.pc = "done"]
          ELSE /\ ret' = ret
               /\ frame' = [frame EXCEPT !.pc = "loop", !.low = Whole(0),
                                         !.high = args.maxEnrage]
    /\ UNCHANGED <<fn, args, calculator, selector>>

\* the frame after the loop body has probed `mid` and found dropRate there
EnrageNarrow(mid, dropRate) ==
    IF Greater(dropRate, args.targetDropRate)
       THEN [frame EXCEPT !.low = mid, !.mid = mid, !.iteration = @ + 1]
       ELSE [frame EXCEPT !.high = mid, !.mid = mid, !.iteration = @ + 1]

\* one iteration of while (high - low > 1)
Enrage_Iterate ==
    /\ fn = "findEnrageForTargetDropRate"
    /\ frame.pc = "loop"
    /\ frame.iteration < MaxIterations
    /\ Greater(Sub(frame.high, frame.low), Whole(1))
    /\ LET dropRate == calculateEnrageScaledDropRate(
                           args.boss, Midpoint(frame.low, frame.high),
                           args.baseDropRate)
       IN  /\ ~IsOvf(dropRate)
           /\ IF IsThrow(dropRate)
                 THEN /\ ret' = dropRate
                      /\ frame' = [frame EXCEPT !.pc = "done"]
                 ELSE /\ ret' = ret
                      /\ frame' = EnrageNarrow(Midpoint(frame.low, frame.high),
                                               dropRate)
    /\ UNCHANGED <<fn, args, calculator, selector>>

\* the loop condition fails: return high
Enrage_Return ==
    /\ fn = "findEnrageForTargetDropRate"
    /\ frame.pc = "loop"
    /\ ~Greater(Sub(frame.high, frame.low), Whole(1))
    /\ ret' = frame.high
    /\ frame' = [frame EXCEPT !.pc = "done"]
    /\ UNCHANGED <<fn, args, calculator, selector>>

MilestoneSearches ==
    {"findMilestoneAttemptsWithBLM", "findMilestoneAttemptsWithLuckAndBLM"}

\* findMilestoneAttemptsWithBLM / ...WithLuckAndBLM up to the loop: the
\* check of the target and let low = 1, high = baseDenominator * 10
Milestone_Enter ==
    /\ fn \in MilestoneSearches
    /\ frame.pc = "entry"
    /\ IF \/ Leq(args.targetProbability, Whole(0))
          \/ Geq(args.targetProbability, Whole(1))
          THEN /\ ret' = Throw("Target probability must be between 0 and 1")
               /\ frame' = [frame EXCEPT !.pc = "done"]
          ELSE /\ ret' = ret
               /\ frame' = [frame EXCEPT
                               !.pc = "loop", !.low = Whole(1),
                               !.high = Mul(args.baseDenominator, Whole(10))]
    /\ UNCHANGED <<fn, args, calculator, selector>>

\* while (low < high): mid is computed and the fold is called with it as
\* its trial count
Milestone_Probe ==
    /\ fn \in MilestoneSearches
    /\ frame.pc = "loop"
    /\ frame.iteration < MaxIterations
    /\ Less(frame.low, frame.high)
    /\ frame' = [frame EXCEPT !.pc = "fold",
                              !.mid = Midpoint(frame.low, frame.high)]
    /\ UNCHANGED <<fn, args, ret, calculator, selector>>

\* the fold the search calls
MilestoneFold(f, trials) ==
    IF f = "findMilestoneAttemptsWithBLM"
       THEN calculateCumulativeProbabilityWithBLM(
                trials, args.baseDenominator, args.mitigationStart,
                args.mitigationCap)
       ELSE calculateCumulativeProbabilityWithLuckAndBLM(
                trials, args.baseDenominator, args.mitigationStart,
                args.mitigationCap)

\* the frame after the fold has returned prob
MilestoneNarrow(prob) ==
    IF Less(prob, args.targetProbability)
       THEN [frame EXCEPT !.pc = "loop", !.low = Add(frame.mid, Whole(1)),
                          !.iteration = @ + 1]
       ELSE [frame EXCEPT !.pc = "loop", !.high = frame.mid,
                          !.iteration = @ + 1]

\* the fold returns (when the model can compute it) and the bounds move
Milestone_FoldReturn ==
    /\ fn \in MilestoneSearches
    /\ frame.pc = "fold"
    /\ ~IsOvf(MilestoneFold(fn, frame.mid))
    /\ IF IsThrow(MilestoneFold(fn, frame.mid))
          THEN /\ ret' = MilestoneFold(fn, frame.mid)
               /\ frame' = [frame EXCEPT !.pc = "done"]
          ELSE /\ ret' = ret
               /\ frame' = MilestoneNarrow(MilestoneFold(fn, frame.mid))
    /\ UNCHANGED <<fn, args, calculator, selector>>

\* the loop condition fails: return low
Milestone_Return ==
    /\ fn \in MilestoneSearches
    /\ frame.pc = "loop"
    /\ ~Less(frame.low, frame.high)
    /\ ret' = frame.low
    /\ frame' = [frame EXCEPT !.pc = "done"]
    /\ UNCHANGED <<fn, args, calculator, selector>>

StepNext ==
    \/ Enrage_Enter
    \/ Enrage_Iterate
    \/ Enrage_Return
    \/ Milestone_Enter
    \/ Milestone_Probe
    \/ Milestone_FoldReturn
    \/ Milestone_Return

StepSpec == StepInit /\ [][StepNext]_vars

---------------------------------------------------------------------------
(* The calculator page, one user event per step *)

\* what the user can type into the search box
SearchTerms == {<<>>, <<" ">>, <<"e">>, <<"N", "e">>, <<"z">>}

NoCall == [none |-> TRUE]

UIInit ==
    /\ fn = "RS3DropCalculator"
    /\ args = NoCall
    /\ ret = Pending
    /\ frame = IdleFrame
    /\ calculator = InitialCalculator
    /\ selector = InitialSelector

\* the value of the boss <select>: selectedBoss?.boss_id || ''
SelectValue ==
    IF calculator.selectedBoss.isNull THEN NoBossId
    ELSE calculator.selectedBoss.boss_id

\* BossSelector.handleBossChange: the user picks another option of the
\* <select>, whose options are the placeholder and the filtered bosses
handleBossChange ==
    /\ \E bossId \in ({NoBossId} \cup
                      {boss.boss_id : boss \in filteredBosses(selector.searchTerm)})
                         \ {SelectValue} :
          calculator' =
              handleBossSelect(
                  calculator,
                  IF bossId = NoBossId \/ IsUndefined(getBossById(bossId))
                     THEN NullBoss ELSE getBossById(bossId))
    /\ UNCHANGED <<fn, args, ret, frame, selector>>

\* BossSelector.handleSearchChange: the user edits the search text
handleSearchChange ==
    /\ \E value \in SearchTerms \ {selector.searchTerm} :
          selector' = [selector EXCEPT !.searchTerm = value]
    /\ calculator' = IF ~calculator.selectedBoss.isNull
                        THEN handleBossSelect(calculator, NullBoss)
                        ELSE calculator
    /\ UNCHANGED <<fn, args, ret, frame>>

\* the items ItemSelector lists
ListedItems ==
    IF calculator.selectedBoss.isNull THEN <<>>
    ELSE getItemsForBoss(calculator.selectedBoss.boss_id)

\* ItemSelector: the user clicks an item button,
\* onItemSelect(isSelected ? null : item)
onItemSelect ==
    /\ \E i \in 1..Len(ListedItems) :
          calculator' =
              [calculator EXCEPT
                  !.selectedItem =
                      IF ~calculator.selectedItem.isNull
                         /\ calculator.selectedItem.id = ListedItems[i].id
                         THEN NullItem ELSE ListedItems[i]]
    /\ UNCHANGED <<fn, args, ret, frame, selector>>

\* ModifiersPanel: the luck toggle, disabled unless luck is applicable
onLuckToggle ==
    /\ ~calculator.selectedBoss.isNull
    /\ calculator.selectedBoss.luck_applicable
    /\ calculator' = [calculator EXCEPT !.luckEnabled = ~@]
    /\ UNCHANGED <<fn, args, ret, frame, selector>>

\* ModifiersPanel: the pity toggle, disabled unless pity is applicable
onBadLuckMitigationToggle ==
    /\ ~calculator.selectedBoss.isNull
    /\ calculator.selectedBoss.bad_luck_mitigation
    /\ calculator' = [calculator EXCEPT !.badLuckMitigationEnabled = ~@]
    /\ UNCHANGED <<fn, args, ret, frame, selector>>

\* ModifiersPanel: the enrage slider, rendered for an enrage_scaling boss
\* with an enrage_config, moved to another value of its range
onEnrageChange ==
    /\ ~calculator.selectedBoss.isNull
    /\ calculator.selectedBoss.type = "enrage_scaling"
    /\ ~IsUndefined(calculator.selectedBoss.enrage_config)
    /\ \E value \in calculator.selectedBoss.enrage_config.min_enrage ..
                    calculator.selectedBoss.enrage_config.max_enrage :
          /\ Whole(value) # calculator.enrage
          /\ calculator' = [calculator EXCEPT !.enrage = Whole(value)]
    /\ UNCHANGED <<fn, args, ret, frame, selector>>

UINext ==
    \/ handleBossChange
    \/ handleSearchChange
    \/ onItemSelect
    \/ onLuckToggle
    \/ onBadLuckMitigationToggle
    \/ onEnrageChange

UISpec == UIInit /\ [][UINext]_vars

---------------------------------------------------------------------------
(* The claims *)

Returned == ret.k # "pending"

Positive(x) == Greater(x, Whole(0))
NonNegative(x) == Geq(x, Whole(0))

\* x is a reported cumulative probability: a number in [0, 0.9999]
InReportedRange(x) ==
    IsNum(x) /\ Leq(Whole(0), x) /\ Leq(x, Num(9999, 10000))

\* target lies in the open interval (0, 1)
OpenUnit(x) == Greater(x, Whole(0)) /\ Less(x, Whole(1))

ValidPity == /\ Positive(args.baseDenominator)
             /\ NonNegative(args.mitigationStart)
             /\ Positive(args.mitigationCap)

\* C1: every function that returns a cumulative probability returns a value
\* in [0, 0.9999] for every trial count >= 0, every positive rate (values
\* below 1 included) and every pity configuration with start >= 0, cap > 0.
C1_CumulativeInRange ==
    Returned =>
      CASE fn = "calculateCumulativeProbability" ->
               (NonNegative(args.attempts) /\ Positive(args.dropRate))
                   => InReportedRange(ret)
        [] fn = "calculateCumulativeProbabilityWithLuck" ->
               (NonNegative(args.attempts) /\ Positive(args.baseDenominator))
                   => InReportedRange(ret)
        [] fn \in {"calculateCumulativeProbabilityWithBLM",
                   "calculateCumulativeProbabilityWithLuckAndBLM"} ->
               (NonNegative(args.attempts) /\ ValidPity) => InReportedRange(ret)
        [] fn = "calculateTableBasedCumulativeProbability" ->
               (NonNegative(args.attempts) /\ ~IsThrow(ret)) => InReportedRange(ret)
        [] fn = "calculateCumulativeProbabilityWithEnrage" ->
               (NonNegative(args.attempts) /\ Positive(args.baseDropRate)
                    /\ ~IsThrow(ret)) => InReportedRange(ret)
        [] OTHER -> TRUE

\* C2: for every target in (0, 1) and every rate > 0 (rate = 1 and targets
\* above 0.9999 included), n = findMilestoneAttempts(target, rate) is the
\* minimal sufficient trial count: the cumulative probability at n is
\* >= target and at n - 1 it is < target.
C2_MilestoneRoundTrip ==
    (Returned /\ fn = "findMilestoneAttempts"
        /\ OpenUnit(args.targetProbability) /\ Positive(args.dropRate))
    => /\ Geq(calculateCumulativeProbability(ret, args.dropRate),
              args.targetProbability)
       /\ Less(calculateCumulativeProbability(Sub(ret, Whole(1)), args.dropRate),
               args.targetProbability)

\* C3: for every target in (0, 1), every positive base denominator and every
\* pity configuration (start >= 0, cap > 0), findMilestoneAttemptsWithBLM
\* returns the smallest trial count n >= 1 whose pity probability is
\* >= target: it meets the target at n and is below it at n - 1.
C3_PityMilestoneMinimal ==
    (Returned /\ fn = "findMilestoneAttemptsWithBLM"
        /\ OpenUnit(args.targetProbability) /\ ValidPity)
    => /\ IsInt(ret) /\ ret.n >= 1
       /\ Geq(calculateCumulativeProbabilityWithBLM(
                  ret, args.baseDenominator, args.mitigationStart,
                  args.mitigationCap),
              args.targetProbability)
       /\ Less(calculateCumulativeProbabilityWithBLM(
                   Sub(ret, Whole(1)), args.baseDenominator,
                   args.mitigationStart, args.mitigationCap),
               args.targetProbability)

\* C4: pity never worsens the outcome: for every trial count t >= 0, every
\* positive base denominator d and every pity configuration (start >= 0,
\* cap > 0), the pity probability is >= the plain probability at (t, d).
C4_PityNeverWorse ==
    (Returned /\ fn = "calculateCumulativeProbabilityWithBLM"
        /\ NonNegative(args.attempts) /\ ValidPity)
    => Geq(ret, calculateCumulativeProbability(args.attempts,
                                               args.baseDenominator))

IsDocumentedKill15 ==
    /\ fn = "getDropRateForKill"
    /\ args = [killNumber |-> Whole(15), baseDenominator |-> Whole(128),
               mitigationStart |-> Whole(10), mitigationCap |-> Whole(20)]

C7_BothIsBest ==
    (Returned /\ fn = "compareAllModifiers" /\ NonNegative(args.attempts)
        /\ ValidPity)
    => /\ ret.k = "obj"
       /\ Geq(ret.withBoth, ret.withLuck)
       /\ Geq(ret.withBoth, ret.withBLM)
       /\ Geq(ret.withBoth, ret.base)

ValidTable ==
    /\ "tableNumerator" \in DOMAIN args
    /\ Positive(args.tableNumerator) /\ Positive(args.itemWeight)
    /\ Leq(args.tableNumerator, args.tableDenominator)
    /\ Leq(args.itemWeight, args.totalWeight)

C9_NonDecreasingInTrials ==
    Returned =>
      CASE fn = "calculateCumulativeProbability" ->
               (Positive(args.attempts) /\ Positive(args.dropRate))
               => Leq(calculateCumulativeProbability(
                          Sub(args.attempts, Whole(1)), args.dropRate), ret)
        [] fn = "calculateTableBasedCumulativeProbability" ->
               (Positive(args.attempts) /\ ValidTable)
               => Leq(calculateTableBasedCumulativeProbability(
                          Sub(args.attempts, Whole(1)), args.tableNumerator,
                          args.tableDenominator, args.itemWeight,
                          args.totalWeight), ret)
        [] OTHER -> TRUE

\* C10: luck strictly improves: for every rate > 0,
\* applyLuckToDropRate(rate) < rate, and for every trial count t >= 0 the
\* probability with luck is >= the plain probability at (t, rate).
C10_LuckImproves ==
    Returned =>
      CASE fn = "applyLuckToDropRate" ->
               Positive(args.baseDenominator) => Less(ret, args.baseDenominator)
        [] fn = "calculateCumulativeProbabilityWithLuck" ->
               (NonNegative(args.attempts) /\ Positive(args.baseDenominator))
               => Geq(ret, calculateCumulativeProbability(
                               args.attempts, args.baseDenominator))
        [] OTHER -> TRUE

\* C11: the pity and the plain curve coincide exactly on the pre-mitigation
\* prefix and nowhere else: for trials <= start the pity probability equals
\* the plain one, for every trials > start it is strictly greater.
C11_PrefixOnly ==
    (Returned /\ fn = "calculateCumulativeProbabilityWithBLM"
        /\ NonNegative(args.attempts) /\ ValidPity)
    => LET plain == calculateCumulativeProbability(args.attempts,
                                                   args.baseDenominator)
       IN  IF Leq(args.attempts, args.mitigationStart)
              THEN ret = plain
              ELSE Greater(ret, plain)

\* C12: for a configuration with 0 < cap <= base, getDropRateForKill is
\* non-increasing in the kill index, always lies in [cap, base], equals cap
\* at the first index where base - (k - start) <= cap (kill 118 for base 128,
\* start 10, cap 20) and at every later index.
C12_CapIsFloor ==
    (Returned /\ fn = "getDropRateForKill" /\ Positive(args.killNumber)
        /\ ValidPity /\ Leq(args.mitigationCap, args.baseDenominator))
    => /\ Geq(ret, args.mitigationCap) /\ Leq(ret, args.baseDenominator)
       /\ args.killNumber.n >= 2
              => Leq(ret, getDropRateForKill(
                              Sub(args.killNumber, Whole(1)),
                              args.baseDenominator, args.mitigationStart,
                              args.mitigationCap))
       /\ (/\ Greater(args.killNumber, args.mitigationStart)
           /\ Leq(Sub(args.baseDenominator,
                      Sub(args.killNumber, args.mitigationStart)),
                  args.mitigationCap))
              => ret = args.mitigationCap
       /\ (fn = "getDropRateForKill" /\ args \in DocumentedKills
              /\ args.killNumber.n >= 118) => ret = Whole(20)

\* the documented schedule at its first capped kill: the kill before is
\* still above the cap
C12_Witness ==
    /\ Returned /\ fn = "getDropRateForKill"
    /\ args = [killNumber |-> Whole(118), baseDenominator |-> Whole(128),
               mitigationStart |-> Whole(10), mitigationCap |-> Whole(20)]
    /\ ret = args.mitigationCap
    /\ Greater(getDropRateForKill(Whole(117), args.baseDenominator,
                                  args.mitigationStart, args.mitigationCap),
               args.mitigationCap)

ValidStage(first, second) ==
    Positive(first) /\ Positive(second) /\ Leq(first, second)

TableCallers ==
    {"calculateTableBasedDropRate", "calculateTableBasedCumulativeProbability",
     "findTableBasedMilestoneAttempts", "getTableBasedDropBreakdown"}

\* C17: calculateTableHitProbability(n, d) and
\* calculateItemFromTableProbability(w, t) raise an error when either
\* argument is <= 0 or the first exceeds the second, and otherwise return
\* exactly n/d (resp. w/t), a value in (0, 1]; the error propagates unchanged
\* out of calculateTableBasedDropRate, calculateTableBasedCumulativeProbability,
\* findTableBasedMilestoneAttempts and getTableBasedDropBreakdown, with no
\* partial result.
C17_StageValidation ==
    Returned =>
      CASE fn = "calculateTableHitProbability" ->
               IF ValidStage(args.numerator, args.denominator)
                  THEN /\ ret = Num(args.numerator.n, args.denominator.n)
                       /\ Positive(ret) /\ Leq(ret, Whole(1))
                  ELSE IsThrow(ret)
        [] fn = "calculateItemFromTableProbability" ->
               IF ValidStage(args.itemWeight, args.totalWeight)
                  THEN /\ ret = Num(args.itemWeight.n, args.totalWeight.n)
                       /\ Positive(ret) /\ Leq(ret, Whole(1))
                  ELSE IsThrow(ret)
        [] fn \in TableCallers ->
               LET tableProb == calculateTableHitProbability(
                                    args.tableNumerator, args.tableDenominator)
                   itemProb == calculateItemFromTableProbability(
                                   args.itemWeight, args.totalWeight)
               IN  /\ ~ValidStage(args.tableNumerator, args.tableDenominator)
                      => (IsThrow(ret) /\ ret = tableProb)
                   /\ (/\ ValidStage(args.tableNumerator, args.tableDenominator)
                       /\ ~ValidStage(args.itemWeight, args.totalWeight))
                      => (IsThrow(ret) /\ ret = itemProb)
        [] OTHER -> TRUE

\* a stage error leaves a caller that has other arguments to reject
C17_Witness ==
    /\ Returned /\ fn = "calculateTableBasedCumulativeProbability"
    /\ Less(args.attempts, Whole(0))
    /\ Greater(args.tableNumerator, args.tableDenominator)
    /\ Positive(args.tableDenominator)
    /\ ret = Throw("Numerator cannot be greater than denominator")

EnrageKinds == {"telos", "zamorak", "arch_glacor"}

\* enrage lies in the domain of the entity kind
InEnrageDomain(boss, enrage) ==
    /\ Geq(enrage, Whole(0))
    /\ boss = "telos" => Leq(enrage, Whole(TelosMaxEnrage))
    /\ boss = "zamorak" => Leq(enrage, Whole(ZamorakMaxEnrage))

\* C14: for each entity kind (telos, zamorak, arch_glacor) and every base
\* rate > 0, calculateEnrageScaledDropRate(kind, 0, base) == base, and for
\* all enrage values p1 < p2 inside the entity's domain the rate at p1 is
\* >= the rate at p2.
C14_EnrageIdentityMonotone ==
    (Returned /\ fn = "calculateEnrageScaledDropRate"
        /\ args.boss \in EnrageKinds /\ Positive(args.baseDropRate)
        /\ InEnrageDomain(args.boss, args.enrage))
    => /\ IsNum(ret)
       /\ args.enrage = Whole(0) => ret = args.baseDropRate
       /\ \A p1 \in Enrages :
              (InEnrageDomain(args.boss, p1) /\ Less(p1, args.enrage))
              => Geq(calculateEnrageScaledDropRate(args.boss, p1,
                                                   args.baseDropRate), ret)

\* Telos at 3000 enrage: a base rate of 4 has become 1
C14_Witness ==
    /\ Returned /\ fn = "calculateEnrageScaledDropRate"
    /\ args = [boss |-> "telos", enrage |-> Whole(3000),
               baseDropRate |-> Whole(4)]
    /\ ret = Whole(1)

C16_EnrageDispatchErrors ==
    (Returned /\ fn = "calculateEnrageScaledDropRate")
    => LET rejected ==
               \/ args.boss \notin EnrageKinds
               \/ Less(args.enrage, Whole(0))
               \/ args.boss \in {"telos", "zamorak"}
                      /\ Greater(args.enrage, Whole(4000))
       IN  IF rejected THEN IsThrow(ret) ELSE IsNum(ret)

\* Arch-Glacor above the bound of the two other bosses returns a rate
C16_Witness ==
    /\ Returned /\ fn = "calculateEnrageScaledDropRate"
    /\ args.boss = "arch_glacor" /\ args.enrage = Whole(4800)
    /\ IsNum(ret) /\ Less(ret, args.baseDropRate)

\* C18: for every integer maxAttempts >= 0 and every integer
\* maxDataPoints >= 2, generateAttemptValues returns a sequence whose first
\* element is 0, whose last element is maxAttempts, that is strictly
\* ascending, whose interior elements are the multiples of
\* step = ceil(maxAttempts / (maxDataPoints - 1)) below maxAttempts, and
\* whose length is at most maxDataPoints + 1.
C18_SamplingShape ==
    (Returned /\ fn = "generateAttemptValues"
        /\ IsInt(args.maxAttempts) /\ args.maxAttempts.n >= 0
        /\ IsInt(args.maxDataPoints) /\ args.maxDataPoints.n >= 2)
    => LET max == args.maxAttempts.n
           points == args.maxDataPoints.n
           step == (max + points - 2) \div (points - 1)
           values == ret.items
       IN  /\ ret.k = "list"
           /\ values[1] = Whole(0)
           /\ values[Len(values)] = Whole(max)
           /\ \A i \in 1..(Len(values) - 1) : Less(values[i], values[i + 1])
           /\ {values[i] : i \in 2..(Len(values) - 1)}
                  = {Whole(j * step) : j \in {m \in 1..max : m * step < max}}
           /\ Len(values) <= points + 1

\* 10 attempts on 4 data points: step 4, and the maximum added after 8
C18_Witness ==
    /\ Returned /\ fn = "generateAttemptValues"
    /\ args = [maxAttempts |-> Whole(10), maxDataPoints |-> Whole(4)]
    /\ ret.items = <<Whole(0), Whole(4), Whole(8), Whole(10)>>

\* C19: for every base rate > 0 (rates <= 1 included)
\* calculateSmartMaxAttempts returns a number in the closed range
\* [50, 30000] (ceil(1.2 * ceil(ln(0.01) / ln(1 - 1 / rate))) clamped to it).
C19_SmartMaxClamped ==
    (Returned /\ fn = "calculateSmartMaxAttempts" /\ Positive(args.dropRate))
    => /\ IsInt(ret)
       /\ Geq(ret, Whole(50)) /\ Leq(ret, Whole(30000))

KeysOf(point) == DOMAIN point \ {"attempts"}

\* C20: in every point generateGraphData returns, base is present; withLuck
\* is present iff luckEnabled and the boss is luck_applicable; withBLM iff
\* blmEnabled and the boss has bad_luck_mitigation; withBoth iff all four
\* hold; withEnrage iff the boss type is enrage_scaling, enrage > 0 and boss
\* and item are non-null; with boss = null only base is present.  The set
\* of keys is the same for every point of one curve.
C20_SeriesPresence ==
    (Returned /\ fn = "generateGraphData" /\ ret.k = "list")
    => LET o == args.options
           boss == o.boss
           luck == o.luckEnabled /\ ~boss.isNull /\ boss.luck_applicable
           blm == o.blmEnabled /\ ~boss.isNull /\ boss.bad_luck_mitigation
           enraged == /\ ~boss.isNull /\ boss.type = "enrage_scaling"
                      /\ Greater(o.enrage, Whole(0)) /\ ~o.itemIsNull
       IN  /\ \A i \in 1..Len(ret.items) :
                  LET keys == KeysOf(ret.items[i])
                  IN  /\ "attempts" \in DOMAIN ret.items[i]
                      /\ keys \subseteq {"base", "withLuck", "withBLM",
                                          "withBoth", "withEnrage"}
                      /\ "base" \in keys
                      /\ "withLuck" \in keys <=> luck
                      /\ "withBLM" \in keys <=> blm
                      /\ "withBoth" \in keys <=> (luck /\ blm)
                      /\ "withEnrage" \in keys <=> enraged
                      /\ boss.isNull => keys = {"base"}
           /\ \A i, j \in 1..Len(ret.items) :
                  DOMAIN ret.items[i] = DOMAIN ret.items[j]

\* an enrage-scaling boss with luck on and pity off in the options: the
\* points carry base, withLuck and withEnrage, but neither withBLM nor
\* withBoth, although the boss supports pity
C20_Witness ==
    /\ Returned /\ fn = "generateGraphData" /\ ret.k = "list"
    /\ Len(ret.items) >= 2
    /\ ~args.options.boss.isNull
    /\ args.options.boss.bad_luck_mitigation /\ ~args.options.blmEnabled
    /\ KeysOf(ret.items[2]) = {"base", "withLuck", "withEnrage"}


\* the lines getActiveLines shows for the arguments of a call whose options
\* carry a boss
LinesOfOptions(o) ==
    getActiveLines(o.luckEnabled, o.blmEnabled, o.boss.luck_applicable,
                   o.boss.bad_luck_mitigation)

\* the data keys of the lines ProbabilityGraph draws for activeLines
\* (src/unnamed/part_002:161-214)
DrawnKeys(activeLines) ==
    {key \in {"base", "withLuck", "withBLM", "withBoth"} :
        \/ key = "base" /\ activeLines.showBase
        \/ key = "withLuck" /\ activeLines.showLuck
        \/ key = "withBLM" /\ activeLines.showBLM
        \/ key = "withBoth" /\ activeLines.showBoth}

\* C21: for all 16 combinations of (luckEnabled, blmEnabled, luckApplicable,
\* blmApplicable) getActiveLines shows the base line; shows the combined
\* line iff all four are true; shows neither the luck nor the pity line when
\* it shows the combined one; otherwise shows the luck line iff luck is
\* enabled and applicable and the pity line iff pity is enabled and
\* applicable; so at most one non-base line is shown, and every line shown
\* has its data key in every point generateGraphData produces for the same
\* flags.
C21_LineSuppression ==
    /\ (Returned /\ fn = "getActiveLines")
       => LET all == /\ args.luckEnabled /\ args.blmEnabled
                     /\ args.luckApplicable /\ args.blmApplicable
          IN  /\ ret.showBase
              /\ ret.showBoth <=> all
              /\ all => ~ret.showLuck /\ ~ret.showBLM
              /\ ~all => /\ ret.showLuck
                            <=> (args.luckEnabled /\ args.luckApplicable)
                         /\ ret.showBLM
                            <=> (args.blmEnabled /\ args.blmApplicable)
              /\ Cardinality(DrawnKeys(ret) \ {"base"}) <= 1
    /\ (/\ Returned /\ fn = "generateGraphData"
        /\ ~args.options.boss.isNull /\ ret.k = "list")
       => \A i \in 1..Len(ret.items) :
              DrawnKeys(LinesOfOptions(args.options)) \subseteq DOMAIN ret.items[i]

\* a chart whose points carry the three modifier keys, of which only the
\* combined one is drawn next to the base line
C21_Witness ==
    /\ Returned /\ fn = "generateGraphData"
    /\ ~args.options.boss.isNull /\ ret.k = "list"
    /\ DrawnKeys(LinesOfOptions(args.options)) = {"base", "withBoth"}
    /\ {"withLuck", "withBLM", "withBoth"} \subseteq DOMAIN ret.items[1]

\* the Nex Torva helm configuration of the README: 6/128 to hit the unique
\* table, 2/12 for the helm
IsNexTorvaHelm ==
    /\ fn = "calculateTableBasedDropRate"
    /\ args = [tableNumerator |-> Whole(6), tableDenominator |-> Whole(128),
               itemWeight |-> Whole(2), totalWeight |-> Whole(12)]

ValidEnrageSearch ==
    /\ fn = "findEnrageForTargetDropRate"
    /\ args.boss \in EnrageKinds
    /\ Positive(args.baseDropRate)
    /\ Leq(args.targetDropRate, args.baseDropRate)
    /\ NonNegative(args.maxEnrage)
    /\ InEnrageDomain(args.boss, args.maxEnrage)

\* C23: findEnrageForTargetDropRate terminates for every kind, base rate
\* > 0, target <= base and real maxEnrage >= 0 of the kind's domain, whole
\* or not: every iteration of its loop strictly shrinks the interval
\* [low, high], until high - low <= 1.
C23_IntervalShrinks ==
    [][(/\ ValidEnrageSearch
        /\ frame.pc = "loop" /\ frame'.pc = "loop"
        /\ frame'.iteration = frame.iteration + 1)
       => Less(Sub(frame'.high, frame'.low), Sub(frame.high, frame.low))]_vars

\* the functions of the claim C24 that take a trial count, and those that
\* take a target
CumulativeFunctions ==
    {"calculateCumulativeProbability", "calculateCumulativeProbabilityWithLuck",
     "calculateCumulativeProbabilityWithBLM",
     "calculateCumulativeProbabilityWithLuckAndBLM"}

MilestoneFunctions ==
    {"findMilestoneAttempts", "findMilestoneAttemptsWithBLM",
     "findMilestoneAttemptsWithLuckAndBLM"}

\* the rate or base denominator of a call
RateOfCall ==
    IF "dropRate" \in DOMAIN args THEN args.dropRate ELSE args.baseDenominator

\* C24: a rate or denominator <= 0 is always rejected with an error and
\* never yields a value: each of the four cumulative functions, for every
\* trial count >= 0 (0 included), and each of findMilestoneAttempts,
\* findMilestoneAttemptsWithBLM and findMilestoneAttemptsWithLuckAndBLM, for
\* every target in (0, 1), raises an error.
C24_NonPositiveRateRejected ==
    /\ (/\ Returned /\ fn \in CumulativeFunctions
        /\ Leq(RateOfCall, Whole(0)) /\ NonNegative(args.attempts))
       => IsThrow(ret)
    /\ (/\ Returned /\ fn \in MilestoneFunctions
        /\ Leq(RateOfCall, Whole(0)) /\ OpenUnit(args.targetProbability))
       => IsThrow(ret)

\* the trial counts generateGraphData passes to the folds for a drop rate:
\* the attempt values it samples
GraphTrialCounts(dropRate, maxDataPoints) ==
    LET attemptValues ==
            generateAttemptValues(calculateSmartMaxAttempts(dropRate),
                                  maxDataPoints).items
    IN  {attemptValues[i] : i \in 1..Len(attemptValues)}

\* C25: the pity fold is bounded by the 30,000-trial domain cap: in every
\* call chain from generateGraphData and from the milestone solvers
\* (findMilestoneAttemptsWithBLM, findMilestoneAttemptsWithLuckAndBLM, with
\* the search domain [1, baseDenominator * 10]), for every positive rate, no
\* call of the pity fold receives a trial count above 30,000.
C25_FoldWithinDomainCap ==
    /\ \A dropRate \in {Whole(2), Whole(3)}, maxDataPoints \in {Whole(3), Whole(60)} :
           \A trials \in GraphTrialCounts(dropRate, maxDataPoints) :
               ~Greater(trials, Whole(SmartMaxAttempts))
    /\ (/\ fn \in MilestoneSearches /\ frame.pc = "fold"
        /\ Positive(args.baseDenominator))
       => ~Greater(frame.mid, Whole(SmartMaxAttempts))

\* the per-trial denominator the claim C26 gives for kill k under luck and
\* pity: base/1.01 up to the start, then
\* max(base/1.01 - (k - start), cap/1.01)
ScaledScheduleAt(k, base, start, cap) ==
    IF Leq(Whole(k), start) THEN Div(base, Num(101, 100))
    ELSE MathMax(Sub(Div(base, Num(101, 100)), Sub(Whole(k), start)),
                 Div(cap, Num(101, 100)))

\* the probability of no drop in kills k..n under that schedule, times p
RECURSIVE ScaledScheduleMisses(_, _, _, _, _, _)
ScaledScheduleMisses(k, n, base, start, cap, p) ==
    IF k > n \/ IsOvf(p) THEN p
    ELSE ScaledScheduleMisses(
             k + 1, n, base, start, cap,
             Mul(p, Sub(Whole(1),
                        Div(Whole(1), ScaledScheduleAt(k, base, start, cap)))))

\* C26: luck composed with pity scales both ends of the schedule: the fold
\* of calculateCumulativeProbabilityWithLuckAndBLM uses at kill k the
\* denominator base/1.01 for k <= start and
\* max(base/1.01 - (k - start), cap/1.01) for k > start, the decrement of 1
\* per kill unscaled, so for every k it is strictly smaller than the
\* pity-only denominator getDropRateForKill(k, base, start, cap).
C26_LuckScalesBothEnds ==
    (/\ Returned /\ fn = "calculateCumulativeProbabilityWithLuckAndBLM"
     /\ ValidPity /\ Positive(args.attempts))
    => /\ ret = MathMin(
                    Sub(Whole(1),
                        ScaledScheduleMisses(
                            1, args.attempts.n, args.baseDenominator,
                            args.mitigationStart, args.mitigationCap, Whole(1))),
                    Num(9999, 10000))
       /\ \A k \in 1..args.attempts.n :
              Less(ScaledScheduleAt(k, args.baseDenominator,
                                    args.mitigationStart, args.mitigationCap),
                   getDropRateForKill(Whole(k), args.baseDenominator,
                                      args.mitigationStart, args.mitigationCap))

\* a fold that runs past the start of the pity and ends on the scaled cap
C26_Witness ==
    /\ Returned /\ fn = "calculateCumulativeProbabilityWithLuckAndBLM"
    /\ ValidPity /\ IsNum(ret)
    /\ args.attempts.n > args.mitigationStart.n + 1
    /\ ScaledScheduleAt(args.attempts.n, args.baseDenominator,
                        args.mitigationStart, args.mitigationCap)
       = Div(args.mitigationCap, Num(101, 100))
    /\ Less(args.mitigationCap, args.baseDenominator)

\* the lines getActiveLines shows for the flags of a MilestoneCards call
LinesOfCards ==
    getActiveLines(args.luckEnabled, args.badLuckMitigationEnabled,
                   args.boss.luck_applicable, args.boss.bad_luck_mitigation)

\* C27: milestone dispatch mirrors curve dispatch: for all 16 combinations
\* of (luckEnabled, badLuckMitigationEnabled, luck_applicable,
\* bad_luck_mitigation) MilestoneCards computes modifiedAttempts with the
\* luck+pity solver iff getActiveLines shows the combined line, with the
\* luck solver iff it shows the luck line, with the pity solver iff it shows
\* the pity line, and with the base solver iff only the base line is shown;
\* a flag that is enabled but not applicable counts exactly as disabled.
C27_MilestoneDispatchMirrorsLines ==
    (Returned /\ fn = "MilestoneCards" /\ ret.k = "list")
    => /\ \A i \in 1..Len(ret.items) :
              LET solver == ret.items[i].solver
              IN  /\ solver = "findMilestoneAttemptsWithLuckAndBLM"
                     <=> LinesOfCards.showBoth
                  /\ solver = "findMilestoneAttemptsWithLuck"
                     <=> LinesOfCards.showLuck
                  /\ solver = "findMilestoneAttemptsWithBLM"
                     <=> LinesOfCards.showBLM
                  /\ solver = "findMilestoneAttempts"
                     <=> (/\ ~LinesOfCards.showBoth /\ ~LinesOfCards.showLuck
                          /\ ~LinesOfCards.showBLM)
                  /\ ret.items[i].modifiedAttempts
                     = modifiedAttempts(
                           solver, ret.items[i].probability, args.rate,
                           OrElse(args.boss.mitigation_start, Whole(10)),
                           OrElse(args.boss.mitigation_cap, Whole(20)))
       /\ ret = MilestoneCards(
                    args.boss, args.rate,
                    args.luckEnabled /\ args.boss.luck_applicable,
                    args.badLuckMitigationEnabled
                        /\ args.boss.bad_luck_mitigation)

\* both flags enabled, luck not applicable: the pity solver is used, and
\* its milestone differs from the base one
C27_Witness ==
    /\ Returned /\ fn = "MilestoneCards" /\ ret.k = "list"
    /\ args.luckEnabled /\ args.badLuckMitigationEnabled
    /\ ~args.boss.luck_applicable /\ args.boss.bad_luck_mitigation
    /\ ret.items[3].solver = "findMilestoneAttemptsWithBLM"
    /\ IsNum(ret.items[3].modifiedAttempts)
    /\ ret.items[3].modifiedAttempts # ret.items[3].baseAttempts

\* the selected item, if any, is one of the items of the selected boss
SelectionConsistent(state) ==
    ~state.selectedItem.isNull
    => /\ ~state.selectedBoss.isNull
       /\ \E i \in 1..Len(getItemsForBoss(state.selectedBoss.boss_id)) :
              getItemsForBoss(state.selectedBoss.boss_id)[i] = state.selectedItem

\* C28: selection consistency of the calculator page: after any sequence
\* of user events (choosing a boss, editing the search text, clicking an
\* item, toggling luck or pity, moving the enrage slider) a selected item
\* implies a selected boss of whose getItemsForBoss the item is one; and
\* every change of selectedBoss, the deselection caused by typing in the
\* search box included, sets selectedItem to null and enrage to 0 in the
\* same step.
C28_SelectionConsistency ==
    [][/\ SelectionConsistent(calculator')
       /\ calculator'.selectedBoss # calculator.selectedBoss
          => /\ calculator'.selectedItem.isNull
             /\ calculator'.enrage = Whole(0)]_vars

\* an item is selected for a boss that was chosen from a filtered list
C28_Witness ==
    /\ ~calculator.selectedItem.isNull
    /\ ~calculator.selectedBoss.isNull
    /\ selector.searchTerm # <<>>

\* C29: modifier flags stay gated by applicability: after any sequence of
\* user events, whenever a boss is selected, luckEnabled implies the boss's
\* luck_applicable and badLuckMitigationEnabled implies its
\* bad_luck_mitigation; and enrage # 0 implies that the selected boss is of
\* type enrage_scaling and has an enrage_config.
C29_FlagsGatedByApplicability ==
    /\ ~calculator.selectedBoss.isNull
       => /\ calculator.luckEnabled
             => calculator.selectedBoss.luck_applicable
          /\ calculator.badLuckMitigationEnabled
             => calculator.selectedBoss.bad_luck_mitigation
    /\ calculator.enrage # Whole(0)
       => /\ ~calculator.selectedBoss.isNull
          /\ calculator.selectedBoss.type = "enrage_scaling"
          /\ ~IsUndefined(calculator.selectedBoss.enrage_config)

\* a boss to which luck applies and pity does not, with luck switched off
\* by its toggle and the enrage slider moved
C29_Witness ==
    /\ ~calculator.selectedBoss.isNull
    /\ calculator.selectedBoss.luck_applicable /\ ~calculator.luckEnabled
    /\ ~calculator.selectedBoss.bad_luck_mitigation
    /\ calculator.enrage # Whole(0)

=============================================================================
